---- MODULE Spec2Model ----
(***************************************************************************)
(* A model of glean (src/glean/cmd.py): the config-drive topology parser,  *)
(* the four interface renderers with their DHCP fallback, the file writer  *)
(* finish_files and the host inventory scanner get_sys_interfaces.         *)
(*                                                                         *)
(* Python dicts are modelled as TLA+ functions (records) when only their   *)
(* contents matter and as sequences of [key, val] pairs when the code      *)
(* iterates them in insertion order.  A file's content is the sequence of  *)
(* its lines, each line standing for the text followed by a newline, so    *)
(* the empty content is the empty sequence.                                *)
(***************************************************************************)
EXTENDS Integers, Sequences, FiniteSets, TLC

VARIABLES
    \* ---- rendering (write_network_info_from_config_drive) ----
    distro,          \* args.distro
    keyfile,         \* the value is_keyfile_format() returns on this host
    args,            \* the other command line flags
    net,             \* the metadata document (network_info)
    sys_interfaces,  \* MAC -> system name, the result of get_sys_interfaces
    disk,            \* paths for which os.path.exists is true
    interfaces,      \* the dict returned by get_config_drive_interfaces
    files_to_write,  \* the FileMap
    pc,              \* position of the run
    err,             \* the exception that ended the run, "none" if none
    \* ---- finish_files ----
    fidx,            \* index of the file finish_files is working on
    retries,         \* the local variable retries
    faults,          \* path -> the errors the next open() calls will raise
    oplog,           \* the calls made to open / write / unlink, in order
    stdout,          \* what was written to sys.stdout
    \* ---- get_sys_interfaces ----
    sysfs,           \* /sys/class/net: name -> attributes
    if_dict,         \* candidates that passed interface_live
    if_up_list,      \* candidates observed with carrier
    sweep,           \* the loop variable x of the carrier wait loop
    cmdlog,          \* 'ip link set dev <iface> up' calls and carrier reads
    \* ---- main ----
    lock,            \* the run that holds /tmp/glean.lock, 0 when it is free
    runs             \* run -> its options, position and lock acquisitions

vars == << distro, keyfile, args, net, sys_interfaces, disk, interfaces,
           files_to_write, pc, err, fidx, retries, faults, oplog, stdout,
           sysfs, if_dict, if_up_list, sweep, cmdlog, lock, runs >>

mainVars   == << lock, runs >>
renderVars == << distro, keyfile, args, net, sys_interfaces, disk, interfaces >>
finishVars == << fidx, retries, faults, oplog, stdout >>
scanVars   == << sysfs, if_dict, if_up_list, sweep, cmdlog >>

----------------------------------------------------------------------------
(* Bounds of the model *)

\* network cards of the host: eth0 .. eth<NumNics-1>
NumNics == 2
\* physical links a metadata document declares: p1 .. p<k>, k <= NumPhys
NumPhys == 2
\* configuration files that exist on disk before the run
MaxDisk == 1

----------------------------------------------------------------------------
(* The universe of names *)

\* The MAC address of card i as sysfs spells it (lower case) ...
MacAddr(i) == "fa:16:3e:00:00:0" \o ToString(i)
\* ... and as the metadata document spells it.
DocMac(i) == "FA:16:3E:00:00:0" \o ToString(i)
NicName(i) == "eth" \o ToString(i - 1)

BondMac == "fa:16:3e:00:00:b0"
DocBondMac == "FA:16:3E:00:00:B0"
VlanMac == "fa:16:3e:00:00:a0"
DocVlanMac == "FA:16:3E:00:00:A0"

\* size of the name tables
MaxIndex == NumNics + NumPhys + 1

\* str.lower() on the MAC spellings of the universe
Lower(s) ==
    IF \E i \in 1..MaxIndex : s = DocMac(i)
    THEN MacAddr(CHOOSE i \in 1..MaxIndex : s = DocMac(i))
    ELSE IF s = DocBondMac THEN BondMac
    ELSE IF s = DocVlanMac THEN VlanMac
    ELSE s

PhysId(i) == "p" \o ToString(i)
NetId(i) == "net" \o ToString(i)

\* Every string the code compares with < (ids and system names), ascending
\* in Python's string order.
StrOrder ==
    << "bond0" >>
    \o [i \in 1..MaxIndex |-> NicName(i)]
    \o [i \in 1..MaxIndex |-> NetId(i)]
    \o [i \in 1..MaxIndex |-> PhysId(i)]
    \o << "vlan0" >>

StrRank(s) == CHOOSE i \in DOMAIN StrOrder : StrOrder[i] = s

----------------------------------------------------------------------------
(* Python helpers *)

SeqToSet(s) == { s[i] : i \in DOMAIN s }

\* d.get(k, default)
Get(d, k, default) == IF k \in DOMAIN d THEN d[k] ELSE default

\* d with key k removed (d.pop(k) for its effect on d)
Without(d, k) == [x \in DOMAIN d \ {k} |-> d[x]]

\* d[k] = v
With(d, k, v) == (k :> v) @@ d

\* d.update(e)
Update(d, e) == e @@ d

\* An insertion-ordered dict is a sequence of [key, val]
DictHas(d, k) == \E i \in DOMAIN d : d[i].key = k
DictGet(d, k) == d[CHOOSE i \in DOMAIN d : d[i].key = k].val
DictPut(d, k, v) ==
    IF DictHas(d, k)
    THEN [i \in DOMAIN d |-> IF d[i].key = k THEN [key |-> k, val |-> v] ELSE d[i]]
    ELSE Append(d, [key |-> k, val |-> v])
DictValues(d) == [i \in DOMAIN d |-> d[i].val]

\* sorted(interfaces.items(), key=lambda x: x[1]['id']): a stable sort
RECURSIVE SortedById(_)
SortedById(items) ==
    IF items = << >> THEN << >>
    ELSE LET n    == Len(items)
             rest == SortedById(SubSeq(items, 1, n - 1))
             x    == items[n]
             \* x goes after every element whose id is <= its own
             pos  == Cardinality({ i \in DOMAIN rest :
                         StrRank(rest[i].val.id) <= StrRank(x.val.id) })
         IN  SubSeq(rest, 1, pos) \o << x >> \o SubSeq(rest, pos + 1, Len(rest))

\* sorted(sys_interfaces.items(), key=lambda x: x[1]): the MACs by name
RECURSIVE SortedByName(_, _)
SortedByName(sys, macs) ==
    IF macs = {} THEN << >>
    ELSE LET m == CHOOSE m \in macs :
                    \A o \in macs : StrRank(sys[m]) <= StrRank(sys[o])
         IN  << m >> \o SortedByName(sys, macs \ {m})

----------------------------------------------------------------------------
(* get_config_drive_interfaces *)

\* The state of the parser: the three buckets (id -> link, with the ids in
\* insertion order), the result dict and the exception raised, if any.
LinkIds(links, kinds) ==
    LET RECURSIVE Ids(_)
        Ids(n) == IF n = 0 THEN << >>
                  ELSE IF links[n].type \in kinds
                       THEN Append(Ids(n - 1), links[n].id)
                       ELSE Ids(n - 1)
    IN  Ids(Len(links))

LinkBucket(links, kinds) ==
    [id \in SeqToSet(LinkIds(links, kinds)) |->
        links[CHOOSE i \in DOMAIN links :
                /\ links[i].id = id
                /\ links[i].type \in kinds
                \* a later link of the same id replaces an earlier one
                /\ \A j \in DOMAIN links :
                     (links[j].id = id /\ links[j].type \in kinds) => j <= i]]

LinkTypes(links) == { links[i].type : i \in DOMAIN links }

\* the vlan on a bond given the one MAC of the bond itself, as a vlan on a
\* physical link is given the MAC of that link
ResolveVlanBondMac(link, phys, bonds) ==
    IF link.vlan_link \in DOMAIN phys \/ link.vlan_link \in DOMAIN bonds
    THEN LET vlan_link == IF link.vlan_link \in DOMAIN phys
                          THEN phys[link.vlan_link] ELSE bonds[link.vlan_link]
         IN  [err |-> "none",
              link |-> With(With(Without(link, "vlan_mac_address"),
                          "raw_macs", << Lower(vlan_link.ethernet_mac_address) >>),
                          "mac_address",
                          Lower(Get(link, "vlan_mac_address",
                                    vlan_link.ethernet_mac_address)))]
    ELSE [err |-> "none", link |-> link]

\* lines 1293-1309: one vlan link, given the physical links and the bonds
ResolveVlan(link, phys, bonds) ==
    IF link.vlan_link \in DOMAIN phys
    THEN LET vlan_link == phys[link.vlan_link]
         IN  [err |-> "none",
              link |-> With(With(Without(link, "vlan_mac_address"),
                          "raw_macs", << Lower(vlan_link.ethernet_mac_address) >>),
                          "mac_address",
                          Lower(Get(link, "vlan_mac_address",
                                    vlan_link.ethernet_mac_address)))]
    ELSE IF link.vlan_link \in DOMAIN bonds
    THEN LET vlan_link == bonds[link.vlan_link]
             kids == vlan_link.bond_links
         IN  IF \E i \in DOMAIN kids : kids[i] \notin DOMAIN phys
             THEN [err |-> "KeyError", link |-> link]
             ELSE [err |-> "none",
                   link |-> With(With(Without(link, "vlan_mac_address"),
                          "raw_macs",
                          [i \in DOMAIN kids |->
                              Lower(phys[kids[i]].ethernet_mac_address)]),
                          "mac_address",
                          Lower(Get(link, "vlan_mac_address",
                                    vlan_link.ethernet_mac_address)))]
    ELSE \* vlan_link not matching any NIC: the link is left as it is
         [err |-> "none", link |-> link]

\* the physical links of a bond left without bond_master
BondMasterForgotten(phys, link) == phys

\* lines 1313-1315: bond_master is set on the physical links of the bond
MarkBondMaster(phys, link) ==
    [p \in DOMAIN phys |->
        IF p \in SeqToSet(link.bond_links)
        THEN With(phys[p], "bond_master", link.id)
        ELSE phys[p]]

\* lines 1311-1322: the bonds, in order; st = [phys, bonds, interfaces, err]
RECURSIVE ParseBonds(_, _, _)
ParseBonds(st, ids, networks) ==
    IF ids = << >> \/ st.err # "none" THEN st
    ELSE LET link == st.bonds[Head(ids)]
             kids == link.bond_links
         IN  IF \E i \in DOMAIN kids : kids[i] \notin DOMAIN st.phys
             THEN [st EXCEPT !.err = "KeyError"]
             ELSE
             LET phys2 == MarkBondMaster(st.phys, link)
                 phy_macs == [i \in DOMAIN kids |->
                                Lower(st.phys[kids[i]].ethernet_mac_address)]
                 link2 == With(With(Without(link, "ethernet_mac_address"),
                                "raw_macs", phy_macs),
                                "mac_address", Lower(link.ethernet_mac_address))
                 link3 == IF link.id \notin networks
                          THEN With(link2, "type", "manual") ELSE link2
                 st2 == [st EXCEPT
                           !.phys = phys2,
                           !.bonds = With(st.bonds, Head(ids), link3),
                           !.interfaces =
                               IF link.id \notin networks
                               THEN DictPut(st.interfaces, link.id, link3)
                               ELSE st.interfaces]
             IN  ParseBonds(st2, Tail(ids), networks)

\* lines 1324-1328: the physical links, in order
RECURSIVE ParsePhys(_, _, _)
ParsePhys(st, ids, networks) ==
    IF ids = << >> THEN st
    ELSE LET link == st.phys[Head(ids)]
             link2 == With(Without(link, "ethernet_mac_address"),
                           "mac_address", Lower(link.ethernet_mac_address))
             link3 == IF link.id \notin networks
                      THEN With(link2, "type", "manual") ELSE link2
             st2 == [st EXCEPT
                       !.phys = With(st.phys, Head(ids), link3),
                       !.interfaces =
                           IF link.id \notin networks
                           THEN DictPut(st.interfaces, link.id, link3)
                           ELSE st.interfaces]
         IN  ParsePhys(st2, Tail(ids), networks)

\* lines 1330-1340: the networks, in order.  link.update(network) changes the
\* link in its bucket, so a later network of the same link starts from it.
RECURSIVE ParseNetworks(_, _)
ParseNetworks(st, nets) ==
    IF nets = << >> THEN st
    ELSE LET network == Head(nets)
             l == network.link
         IN  IF l \in DOMAIN st.vlans
             THEN LET link == Update(st.vlans[l], network)
                  IN  ParseNetworks(
                        [st EXCEPT !.vlans = With(st.vlans, l, link),
                                   !.interfaces =
                                       DictPut(st.interfaces, network.id, link)],
                        Tail(nets))
             ELSE IF l \in DOMAIN st.phys
             THEN LET link == Update(st.phys[l], network)
                  IN  ParseNetworks(
                        [st EXCEPT !.phys = With(st.phys, l, link),
                                   !.interfaces =
                                       DictPut(st.interfaces, network.id, link)],
                        Tail(nets))
             ELSE IF l \in DOMAIN st.bonds
             THEN LET link == Update(st.bonds[l], network)
                  IN  ParseNetworks(
                        [st EXCEPT !.bonds = With(st.bonds, l, link),
                                   !.interfaces =
                                       DictPut(st.interfaces, network.id, link)],
                        Tail(nets))
             ELSE ParseNetworks(st, Tail(nets))

\* The whole function: [interfaces, err]
get_config_drive_interfaces(doc) ==
    IF "networks" \notin DOMAIN doc \/ "links" \notin DOMAIN doc
    THEN [interfaces |-> << >>, err |-> "none"]
    ELSE
    LET links    == doc.links
        networks == { doc.networks[i].link : i \in DOMAIN doc.networks }
        vlans0   == LinkBucket(links, {"vlan"})
        bonds0   == LinkBucket(links, {"bond"})
        phys0    == LinkBucket(links, LinkTypes(links) \ {"vlan", "bond"})
        resolved == [id \in DOMAIN vlans0 |-> ResolveVlan(vlans0[id], phys0, bonds0)]
        vlanErr  == \E id \in DOMAIN vlans0 : resolved[id].err # "none"
        st0 == [vlans |-> [id \in DOMAIN vlans0 |-> resolved[id].link],
                phys |-> phys0, bonds |-> bonds0,
                interfaces |-> << >>,
                err |-> IF vlanErr THEN "KeyError" ELSE "none"]
        st1 == ParseBonds(st0, LinkIds(links, {"bond"}), networks)
        st2 == IF st1.err # "none" THEN st1
               ELSE ParsePhys(st1, LinkIds(links, LinkTypes(links) \ {"vlan", "bond"}),
                              networks)
        st3 == IF st2.err # "none" THEN st2 ELSE ParseNetworks(st2, doc.networks)
    IN  [interfaces |-> IF st3.err = "none" THEN st3.interfaces ELSE << >>,
         err |-> st3.err]

----------------------------------------------------------------------------
(* Text helpers *)

\* sep.join(items)
RECURSIVE Join(_, _)
Join(items, sep) ==
    IF items = << >> THEN ""
    ELSE IF Len(items) = 1 THEN items[1]
    ELSE items[1] \o sep \o Join(Tail(items), sep)

\* utils.ipv6_netmask_length on the netmasks of the universe
ipv6_netmask_length(netmask) ==
    IF netmask = "ffff:ffff:ffff:ffff::" THEN 64
    ELSE IF netmask = "ffff:ffff:ffff::" THEN 48
    ELSE IF netmask = "ffff:ffff:ffff:ffff:ffff:ffff:ffff:ffff" THEN 128
    ELSE IF netmask = "ff00::" THEN 8
    ELSE 0

\* the netmasks of the universe utils.ipv6_netmask_length converts; for any
\* other text it raises
ipv6_netmask_valid(netmask) ==
    netmask \in { "::", "ff00::", "ffff:ffff:ffff::", "ffff:ffff:ffff:ffff::",
                  "ffff:ffff:ffff:ffff:ffff:ffff:ffff:ffff" }

\* interface.get('raw_macs', [interface['mac_address']])
RawMacs(interface) == Get(interface, "raw_macs", << interface.mac_address >>)

\* not set(sys_interfaces).intersection(set(raw_macs))
NoMatch(sys, raw_macs) == (DOMAIN sys) \cap SeqToSet(raw_macs) = {}

\* [sys_interfaces[mac] for mac in raw_macs]; a KeyError when one is missing
AllPresent(sys, raw_macs) == SeqToSet(raw_macs) \subseteq DOMAIN sys
SysNames(sys, raw_macs) == [i \in DOMAIN raw_macs |-> sys[raw_macs[i]]]

----------------------------------------------------------------------------
(* write_debian_interfaces *)

eni_path == "/etc/network/interfaces"
eni_d_path == eni_path \o ".d"
DebianPath(name) == eni_d_path \o "/" \o name \o ".cfg"

\* lines 1067-1086; the caller has checked AllPresent
_write_debian_bond_conf(interface_name, interface, sys) ==
    LET slaves == Join(SysNames(sys, interface.raw_macs), " ")
    IN  (IF interface.mac_address # ""
         THEN << "    hwaddress " \o interface.mac_address >> ELSE << >>)
        \o << "    bond-mode " \o interface.bond_mode,
              "    bond-miimon " \o Get(interface, "bond_miimon", "0"),
              "    bond-lacp-rate " \o Get(interface, "bond_lacp_rate", "slow"),
              "    bond-xmit_hash_policy "
                  \o Get(interface, "bond_xmit_hash_policy", "layer2"),
              "    bond-slaves none",
              "    post-up ifenslave " \o interface_name \o " " \o slaves,
              "    pre-down ifenslave -d " \o interface_name \o " " \o slaves >>

\* lines 1166-1191: the route lines of a static stanza
RECURSIVE DebianRoutes(_, _, _)
DebianRoutes(routes, interface, interface_name) ==
    IF routes = << >> THEN << >>
    ELSE LET route == Head(routes)
             isDefault ==
                 \/ route.network = "0.0.0.0" /\ route.netmask = "0.0.0.0"
                 \/ route.network = "::" /\ route.netmask = "::"
             lines ==
                 IF isDefault THEN << "    gateway " \o route.gateway >>
                 ELSE IF interface.type = "ipv4"
                 THEN << "    up route add -net " \o route.network \o " netmask "
                           \o route.netmask \o " gw " \o route.gateway \o " || true",
                         "    down route del -net " \o route.network \o " netmask "
                           \o route.netmask \o " gw " \o route.gateway \o " || true" >>
                 ELSE LET mask == ToString(ipv6_netmask_length(route.netmask))
                      IN << "    up ip -6 route add " \o route.network \o "/" \o mask
                              \o " via " \o route.gateway \o " dev "
                              \o interface_name \o " || true",
                            "    down ip -6 route del " \o route.network \o "/" \o mask
                              \o " via " \o route.gateway \o " dev "
                              \o interface_name \o " || true" >>
         IN  lines \o DebianRoutes(Tail(routes), interface, interface_name)

\* lines 1106-1113: the device under a vlan; "None" is Python's None
DebianVlanRawDevice(interface, sys) ==
    IF "vlan_id" \notin DOMAIN interface THEN "None"
    ELSE IF Len(RawMacs(interface)) = 1
    THEN Get(sys, RawMacs(interface)[1], "None")
    ELSE interface.vlan_link

\* lines 1107-1121: the Debian name of the interface; "" is the KeyError of
\* sys_interfaces[mac]
DebianInterfaceName(iname, interface, sys) ==
    IF "vlan_id" \in DOMAIN interface
    THEN DebianVlanRawDevice(interface, sys) \o "." \o ToString(interface.vlan_id)
    ELSE IF "bond_mode" \in DOMAIN interface THEN Get(interface, "link", iname)
    ELSE Get(sys, interface.mac_address, "")

\* lines 1123-1199: the stanza of an interface under its Debian name
DebianStanza(st, interface_name, interface, sys, exists) ==
    LET vlan_raw_device == DebianVlanRawDevice(interface, sys)
        isBond == "bond_mode" \in DOMAIN interface
        iface_path == DebianPath(interface_name)
        head == IF iface_path \notin DOMAIN st.files
                THEN << "auto " \o interface_name >>
                ELSE st.files[iface_path]
        link_type == IF interface.type = "ipv6" THEN "inet6" ELSE "inet"
        body ==
            IF interface.type = "ipv4_dhcp"
            THEN << "iface " \o interface_name \o " inet dhcp" >>
                 \o (IF vlan_raw_device # "None"
                     THEN << "    vlan-raw-device " \o vlan_raw_device,
                             "    hw-mac-address " \o interface.mac_address >>
                     ELSE << >>)
            ELSE IF interface.type = "manual"
            THEN << "iface " \o interface_name \o " inet manual" >>
            ELSE << "iface " \o interface_name \o " " \o link_type \o " static" >>
                 \o (IF vlan_raw_device # "None"
                     THEN << "    vlan-raw-device " \o vlan_raw_device >>
                     ELSE << >>)
                 \o << "    address " \o interface.ip_address >>
                 \o (IF interface.type = "ipv4"
                     THEN << "    netmask " \o interface.netmask >>
                     ELSE << "    netmask "
                               \o ToString(ipv6_netmask_length(interface.netmask)) >>)
                 \o DebianRoutes(Get(interface, "routes", << >>),
                                 interface, interface_name)
        master == IF "bond_master" \in DOMAIN interface
                  THEN << "    bond-master " \o interface.bond_master >> ELSE << >>
    IN  IF iface_path \in exists THEN st
        ELSE IF interface.type \notin {"ipv4_dhcp", "manual", "ipv4", "ipv6"}
        THEN st   \* We do not know this type of entry
        ELSE IF isBond /\ ~AllPresent(sys, interface.raw_macs)
        THEN [st EXCEPT !.err = "KeyError"]
        ELSE [st EXCEPT !.files =
                With(st.files, iface_path,
                     head \o body \o master
                     \o (IF isBond
                         THEN _write_debian_bond_conf(interface_name, interface, sys)
                         ELSE << >>))]

\* the loop body with the skip of lines 1102-1103 turned into a fallback: an
\* interface of no card of the host is rendered under its link id
DebianInterfaceUnderId(st, iname, interface, sys, exists) ==
    IF "mac_address" \notin DOMAIN interface THEN [st EXCEPT !.err = "KeyError"]
    ELSE IF NoMatch(sys, RawMacs(interface))
    THEN DebianStanza(st, iname, interface, sys, exists)
    ELSE IF DebianInterfaceName(iname, interface, sys) = ""
    THEN [st EXCEPT !.err = "KeyError"]
    ELSE DebianStanza(st, DebianInterfaceName(iname, interface, sys),
                      interface, sys, exists)

\* lines 1096-1199: one iteration of the loop; st = [files, err]
DebianInterface(st, iname, interface, sys, exists) ==
    IF "mac_address" \notin DOMAIN interface THEN [st EXCEPT !.err = "KeyError"]
    ELSE IF NoMatch(sys, RawMacs(interface)) THEN st
    ELSE IF DebianInterfaceName(iname, interface, sys) = ""
    THEN [st EXCEPT !.err = "KeyError"]
    ELSE DebianStanza(st, DebianInterfaceName(iname, interface, sys),
                      interface, sys, exists)

RECURSIVE DebianConfigDrive(_, _, _, _)
DebianConfigDrive(st, items, sys, exists) ==
    IF items = << >> \/ st.err # "none" THEN st
    ELSE DebianConfigDrive(
            DebianInterface(st, Head(items).key, Head(items).val, sys, exists),
            Tail(items), sys, exists)

\* lines 1212-1217: does the config drive mention this MAC
DebianMentions(ifs, mac) ==
    \/ \E i \in DOMAIN ifs : ifs[i].val.mac_address = mac
    \/ \E i \in DOMAIN ifs : /\ "vlan_id" \in DOMAIN ifs[i].val
                             /\ "link_mac" \in DOMAIN ifs[i].val
                             /\ ifs[i].val.link_mac = mac

\* lines 1205-1220: the DHCP fallback
RECURSIVE DebianFallback(_, _, _, _, _)
DebianFallback(files, macs, ifs, sys, exists) ==
    IF macs = << >> THEN files
    ELSE LET mac == Head(macs)
             iname == sys[mac]
             iface_path == DebianPath(iname)
             files2 ==
                 IF iface_path \in exists THEN files
                 ELSE IF DebianMentions(ifs, mac) THEN files
                 ELSE With(files, iface_path,
                           << "auto " \o iname, "iface " \o iname \o " inet dhcp" >>)
         IN  DebianFallback(files2, Tail(macs), ifs, sys, exists)

\* The whole function: [files, err, interfaces]
write_debian_interfaces(ifs, sys, a, exists) ==
    LET files0 == eni_path :> << "auto lo", "iface lo inet loopback",
                                 "source /etc/network/interfaces.d/*.cfg" >>
        st == DebianConfigDrive([files |-> files0, err |-> "none"],
                                SortedById(ifs), sys, exists)
    IN  IF st.err # "none" THEN [files |-> << >>, err |-> st.err, interfaces |-> ifs]
        ELSE IF a.no_dhcp_fallback
        THEN [files |-> st.files, err |-> "none", interfaces |-> ifs]
        ELSE [files |-> DebianFallback(st.files, SortedByName(sys, DOMAIN sys),
                                       ifs, sys, exists),
              err |-> "none", interfaces |-> ifs]

----------------------------------------------------------------------------
(* The RedHat family: legacy ifcfg files, SUSE, NetworkManager keyfiles *)

_is_suse(d) == d \in {"suse", "opensuse", "opensuse-leap", "sles"}

\* lines 101-116
_network_files(d) ==
    IF _is_suse(d)
    THEN [ifcfg  |-> "/etc/sysconfig/network/ifcfg",
          route  |-> "/etc/sysconfig/network/ifroute",
          route6 |-> "/etc/sysconfig/network/ifroute6"]
    ELSE [ifcfg  |-> "/etc/sysconfig/network-scripts/ifcfg",
          route  |-> "/etc/sysconfig/network-scripts/route",
          route6 |-> "/etc/sysconfig/network-scripts/route6"]

IfcfgPath(d, name) == _network_files(d).ifcfg \o "-" \o name
KeyfilePath(name) ==
    "/etc/NetworkManager/system-connections/" \o name \o ".nmconnection"

\* lines 73-83
_exists_rh_interface(name, d, exists) == IfcfgPath(d, name) \in exists
_exists_rh_keyfile_interface(name, exists) == KeyfilePath(name) \in exists

\* lines 119-154: the preamble, already formatted.  The legacy and SUSE
\* templates take bootproto, the keyfile template takes method.
_network_config(d, kf, a, name, proto, hwaddr) ==
    IF _is_suse(d)
    THEN << "# Automatically generated, do not edit",
            "BOOTPROTO=" \o proto,
            "LLADDR=" \o hwaddr,
            "STARTMODE=auto" >>
    ELSE IF kf
    THEN << "# Automatically generated, do not edit",
            "[connection]",
            "id=" \o name,
            "uuid=",
            "type=802-3-ethernet",
            "",
            "[ipv4]",
            "method=" \o proto,
            "",
            "[802-3-ethernet]",
            "mac_address=" \o hwaddr >>
    ELSE << "# Automatically generated, do not edit",
            "DEVICE=" \o name,
            "BOOTPROTO=" \o proto,
            "HWADDR=" \o hwaddr,
            "ONBOOT=yes",
            "NM_CONTROLLED=" \o (IF a.use_nm THEN "yes" ELSE "no"),
            "TYPE=Ethernet" >>

\* the slave's lines left as they are
KeepAuto(results) == results

\* results.replace("=auto", "=hotplug"), line by line: of the lines the
\* renderer writes only STARTMODE=auto contains "=auto"
ReplaceAuto(results) ==
    [i \in DOMAIN results |->
        IF results[i] = "STARTMODE=auto" THEN "STARTMODE=hotplug" ELSE results[i]]

RECURSIVE BondingSlaveLines(_, _)
BondingSlaveLines(slaves, n) ==
    IF n = 0 THEN << >>
    ELSE Append(BondingSlaveLines(slaves, n - 1),
                "BONDING_SLAVE_" \o ToString(n - 1) \o "=" \o slaves[n])

\* lines 157-197
_set_rh_bonding(name, interface, d, kf, results) ==
    IF "bond_slaves" \notin DOMAIN interface /\ "bond_master" \notin DOMAIN interface
    THEN results
    ELSE IF _is_suse(d)
    THEN IF "bond_slaves" \in DOMAIN interface
         THEN results \o << "BONDING_MASTER=yes" >>
              \o BondingSlaveLines(interface.bond_slaves, Len(interface.bond_slaves))
         ELSE ReplaceAuto(results)
    ELSE IF kf
    THEN IF "bond_slaves" \in DOMAIN interface
         THEN results \o << "type=bond" >>
         ELSE results \o << "master=" \o interface.bond_master, "slave-type=bond" >>
    ELSE IF "bond_slaves" \in DOMAIN interface
         THEN results
         ELSE results \o << "SLAVE=yes", "MASTER=" \o interface.bond_master >>

\* name.split('.')[0] for the device names the renderer builds
SplitDot(name, bases, ids) ==
    IF \E b \in bases, v \in ids : name = b \o "." \o ToString(v)
    THEN CHOOSE b \in bases : \E v \in ids : name = b \o "." \o ToString(v)
    ELSE name

\* lines 200-217
_set_rh_vlan(name, interface, d, kf, bases) ==
    IF "vlan_id" \notin DOMAIN interface THEN << >>
    ELSE IF _is_suse(d)
    THEN << "VLAN_ID=" \o ToString(interface.vlan_id),
            "ETHERDEVICE=" \o SplitDot(name, bases, {interface.vlan_id}) >>
    ELSE IF kf
    THEN << "", "[vlan]",
            "id=" \o ToString(interface.vlan_id),
            "parent=" \o interface.vlan_link >>
    ELSE << "VLAN=yes" >>

\* ipaddress.ip_interface(address + "/" + netmask).with_prefixlen, for the
\* IPv4 netmasks of the universe
ipv4_netmask_length(netmask) ==
    IF netmask = "255.255.255.0" THEN 24
    ELSE IF netmask = "255.255.0.0" THEN 16
    ELSE IF netmask = "255.0.0.0" THEN 8
    ELSE 0

WithPrefixlen(address, netmask) ==
    address \o "/" \o ToString(ipv4_netmask_length(netmask))

\* re.search(r"address.*/[0-9][0-9]\n", results): the first line that holds
\* "address" and ends in a slash and exactly two digits.  Among the lines of a
\* keyfile these are the address1= lines with a prefix length of 10..99.
TwoDigits(n) == n >= 10 /\ n <= 99

\* no route taken for the default route
NeverDefaultRoute(route) == FALSE

\* lines 330, 932-933: the test for the ipv4 default route
IsDefaultRoute4(route) == route.network = "0.0.0.0" /\ route.netmask = "0.0.0.0"

\* lines 329-342: the routes kept for the route file, in order
RECURSIVE RhRouteList(_, _)
RhRouteList(routes, d) ==
    IF routes = << >> THEN << >>
    ELSE LET route == Head(routes)
             rest  == RhRouteList(Tail(routes), d)
         IN  IF IsDefaultRoute4(route)
             THEN IF ~_is_suse(d) THEN rest
                  ELSE << [net |-> "default", mask |-> "", gw |-> route.gateway] >>
                       \o rest
             ELSE << [net |-> route.network, mask |-> route.netmask,
                      gw |-> route.gateway] >> \o rest

\* lines 330-334: the DEFROUTE/GATEWAY lines added to the ifcfg file
RECURSIVE RhDefaultRouteLines(_, _)
RhDefaultRouteLines(routes, d) ==
    IF routes = << >> THEN << >>
    ELSE (IF IsDefaultRoute4(Head(routes)) /\ ~_is_suse(d)
          THEN << "DEFROUTE=yes", "GATEWAY=" \o Head(routes).gateway >>
          ELSE << >>)
         \o RhDefaultRouteLines(Tail(routes), d)

\* the entries of the route file numbered from 1
RECURSIVE RhRouteContentFromOne(_, _, _)
RhRouteContentFromOne(routes, d, x) ==
    IF x > Len(routes) THEN << >>
    ELSE (IF ~_is_suse(d)
          THEN << "ADDRESS" \o ToString(x) \o "=" \o routes[x].net,
                  "NETMASK" \o ToString(x) \o "=" \o routes[x].mask,
                  "GATEWAY" \o ToString(x) \o "=" \o routes[x].gw >>
          ELSE << IF routes[x].mask = ""
                  THEN routes[x].net \o " " \o routes[x].gw
                  ELSE routes[x].net \o " " \o routes[x].gw \o " " \o routes[x].mask >>)
         \o RhRouteContentFromOne(routes, d, x + 1)

\* lines 344-355
RECURSIVE RhRouteContent(_, _, _)
RhRouteContent(routes, d, x) ==
    IF x > Len(routes) THEN << >>
    ELSE (IF ~_is_suse(d)
          THEN << "ADDRESS" \o ToString(x - 1) \o "=" \o routes[x].net,
                  "NETMASK" \o ToString(x - 1) \o "=" \o routes[x].mask,
                  "GATEWAY" \o ToString(x - 1) \o "=" \o routes[x].gw >>
          ELSE << IF routes[x].mask = ""
                  THEN routes[x].net \o " " \o routes[x].gw
                  ELSE routes[x].net \o " " \o routes[x].gw \o " " \o routes[x].mask >>)
         \o RhRouteContent(routes, d, x + 1)

\* lines 313-361
_write_rh_interface(name, interface, d, kf, a, bases) ==
    LET results0 == _network_config(d, kf, a, name, "static", interface.mac_address)
                    \o << "IPADDR=" \o interface.ip_address,
                          "NETMASK=" \o interface.netmask >>
                    \o _set_rh_vlan(name, interface, d, kf, bases)
        results1 == _set_rh_bonding(name, interface, d, kf, results0)
        results  == results1
                    \o RhDefaultRouteLines(Get(interface, "routes", << >>), d)
        routes   == RhRouteList(Get(interface, "routes", << >>), d)
        ifcfg    == IfcfgPath(d, name) :> results
    IN  IF routes # << >>
        THEN ifcfg @@ ((_network_files(d).route \o "-" \o name)
                          :> RhRouteContent(routes, d, 1))
        ELSE ifcfg

\* lines 364-374
_write_rh_dhcp(name, interface, d, kf, a, bases) ==
    IfcfgPath(d, name) :>
        _set_rh_bonding(name, interface, d, kf,
            _network_config(d, kf, a, name, "dhcp", interface.mac_address)
            \o _set_rh_vlan(name, interface, d, kf, bases))

\* lines 377-389
_write_rh_keyfile_dhcp(name, interface, d, kf, a, bases) ==
    KeyfilePath(name) :>
        _set_rh_bonding(name, interface, d, kf,
            _network_config(d, kf, a, name, "auto", interface.mac_address)
            \o _set_rh_vlan(name, interface, d, kf, bases))

\* lines 392-410
_write_rh_manual(name, interface, d, kf, a, bases) ==
    (IF kf THEN KeyfilePath(name) ELSE IfcfgPath(d, name)) :>
        _set_rh_bonding(name, interface, d, kf,
            _network_config(d, kf, a, name, IF kf THEN "manual" ELSE "none",
                            interface.mac_address)
            \o _set_rh_vlan(name, interface, d, kf, bases))

\* insert the lines ins after line number at of results
InsertAfter(results, at, ins) ==
    SubSeq(results, 1, at) \o ins \o SubSeq(results, at + 1, Len(results))

\* the first line of results that satisfies the test, 0 when there is none
FirstLine(results, Test(_)) ==
    IF \E i \in DOMAIN results : Test(results[i])
    THEN CHOOSE i \in DOMAIN results :
            Test(results[i]) /\ \A j \in 1..(i - 1) : ~Test(results[j])
    ELSE 0

\* lines 436-445: route<n>=<cidr>,<gateway> for every route, default or not
KeyfileRoutes4(routes) ==
    [i \in DOMAIN routes |->
        "route" \o ToString(i) \o "="
        \o WithPrefixlen(routes[i].network, routes[i].netmask)
        \o "," \o routes[i].gateway]

\* lines 413-456: [files, err]
_write_rh_keyfile_interface(name, interface, d, kf, a, bases) ==
    LET pre      == _network_config(d, kf, a, name, "manual", interface.mac_address)
        cidr     == "address1=" \o WithPrefixlen(interface.ip_address, interface.netmask)
        IsManual(l) == l = "method=manual"
        results0 == InsertAfter(pre, FirstLine(pre, IsManual), << cidr >>)
                    \o _set_rh_vlan(name, interface, d, kf, bases)
        results1 == _set_rh_bonding(name, interface, d, kf, results0)
        routes   == KeyfileRoutes4(Get(interface, "routes", << >>))
        IsAddr(l) == l = cidr
        anchored == TwoDigits(ipv4_netmask_length(interface.netmask))
    IN  IF routes = << >>
        THEN [files |-> KeyfilePath(name) :> results1, err |-> "none"]
        ELSE IF ~anchored
        THEN \* route_match is None
             [files |-> << >>, err |-> "AttributeError"]
        ELSE [files |-> KeyfilePath(name) :>
                  InsertAfter(results1, FirstLine(results1, IsAddr), routes),
              err |-> "none"]

Suffix(n) == IF n # 0 THEN "/" \o ToString(n) ELSE ""

\* lines 236-256: the lines added to the ifcfg file for default routes
RECURSIVE Rh6DefaultLines(_)
Rh6DefaultLines(routes) ==
    IF routes = << >> THEN << >>
    ELSE (IF Head(routes).network = "::"
          THEN << "IPV6_DEFAULTGW=" \o Head(routes).gateway
                    \o Suffix(ipv6_netmask_length(Head(routes).netmask)) >>
          ELSE << >>)
         \o Rh6DefaultLines(Tail(routes))

RECURSIVE Rh6RouteLines(_)
Rh6RouteLines(routes) ==
    IF routes = << >> THEN << >>
    ELSE (IF Head(routes).network # "::"
          THEN << Head(routes).network
                    \o Suffix(ipv6_netmask_length(Head(routes).netmask))
                    \o " via " \o Head(routes).gateway >>
          ELSE << >>)
         \o Rh6RouteLines(Tail(routes))

\* lines 220-263: [files, err]; files is the whole FileMap so far
_write_rh_v6_interface(name, interface, d, files) ==
    LET config_file == IfcfgPath(d, name)
        routes == Get(interface, "routes", << >>)
        config_data ==
            files[config_file]
            \o << "IPV6INIT=yes", "IPV6_PRIVACY=no" >>
            \o (IF interface.type = "ipv6_slaac"
                THEN << "IPV6_AUTOCONF=yes" >>
                ELSE << "IPV6_AUTOCONF=no",
                        "IPV6ADDR=" \o interface.ip_address \o "/"
                           \o ToString(ipv6_netmask_length(interface.netmask)) >>)
            \o Rh6DefaultLines(routes)
        route6_file == _network_files(d).route6 \o "-" \o name
        extra == Rh6RouteLines(routes)
    IN  IF config_file \notin DOMAIN files
        THEN [files |-> files, err |-> "AssertionError"]
        ELSE IF interface.type # "ipv6_slaac" /\ "ip_address" \notin DOMAIN interface
        THEN [files |-> files, err |-> "KeyError"]
        ELSE [files |-> With(IF extra # << >>
                             THEN With(files, route6_file, extra) ELSE files,
                             config_file, config_data),
              err |-> "none"]

\* lines 285-295
KeyfileRoutes6(routes) ==
    [i \in DOMAIN routes |->
        "route" \o ToString(i) \o "=" \o routes[i].network \o "/"
        \o ToString(ipv6_netmask_length(routes[i].netmask))
        \o "," \o routes[i].gateway]

\* lines 278-281: interface['netmask'] or its conversion raises inside the
\* try; the except clause logs and leaves the local name netmask unassigned
NetmaskUnbound(interface) ==
    \/ "netmask" \notin DOMAIN interface
    \/ ~ipv6_netmask_valid(interface.netmask)

\* lines 266-310: [files, err]; files is the whole FileMap so far
_write_rh_v6_keyfile_interface(name, interface, files) ==
    LET filename == KeyfilePath(name)
        auto     == interface.type = "ipv6_slaac" /\ interface.ip_address = ""
        len      == ipv6_netmask_length(interface.netmask)
        results0 == IF auto THEN << "[ipv6]", "method=auto" >>
                    ELSE << "[ipv6]", "method=manual",
                            "address1=" \o interface.ip_address \o "/" \o ToString(len) >>
        routes   == KeyfileRoutes6(Get(interface, "routes", << >>))
        \* the address pattern needs a two-digit prefix length; the second
        \* pattern, method=*\n, matches no line of results
        anchored == ~auto /\ TwoDigits(len)
        results  == IF routes = << >> THEN results0
                    ELSE InsertAfter(results0, 3, routes)
    IN  IF "ip_address" \notin DOMAIN interface
        THEN [files |-> files, err |-> "KeyError"]
        ELSE IF ~auto /\ NetmaskUnbound(interface)
        THEN [files |-> files, err |-> "UnboundLocalError"]
        ELSE IF \E i \in DOMAIN Get(interface, "routes", << >>) :
                   ~ipv6_netmask_valid(interface.routes[i].netmask)
        THEN [files |-> files, err |-> "ValueError"]
        ELSE IF routes # << >> /\ ~anchored
        THEN [files |-> files, err |-> "AttributeError"]
        ELSE IF filename \notin DOMAIN files
        THEN [files |-> files, err |-> "KeyError"]
        ELSE [files |-> With(files, filename, files[filename] \o << "" >> \o results),
              err |-> "none"]

\* Python's order of the type strings
TypeOrder == << "ipv4", "ipv4_dhcp", "ipv6", "ipv6_slaac", "manual" >>
TypeRank(t) == CHOOSE i \in DOMAIN TypeOrder : TypeOrder[i] = t

\* sorted(_interfaces, key=lambda x: x['type']): a stable sort
RECURSIVE SortedByType(_)
SortedByType(group) ==
    IF group = << >> THEN << >>
    ELSE LET n    == Len(group)
             rest == SortedByType(SubSeq(group, 1, n - 1))
             x    == group[n]
             pos  == Cardinality({ i \in DOMAIN rest :
                         TypeRank(rest[i].type) <= TypeRank(x.type) })
         IN  SubSeq(rest, 1, pos) \o << x >> \o SubSeq(rest, pos + 1, Len(rest))

\* the loop of lines 462-483 adding the slaves to a bond_slaves list the
\* record may already have, and leaving bond_links in the record
RECURSIVE RhStripAccumulating(_, _, _)
RhStripAccumulating(st, i, sys) ==
    IF i > Len(st.all) \/ st.err # "none" THEN st
    ELSE LET iname == st.all[i].key
             interface == st.all[i].val
         IN  IF "mac_address" \notin DOMAIN interface
             THEN [st EXCEPT !.err = "KeyError"]
             ELSE IF NoMatch(sys, RawMacs(interface))
             THEN RhStripAccumulating(st, i + 1, sys)
             ELSE IF "bond_links" \in DOMAIN interface
             THEN IF ~AllPresent(sys, interface.raw_macs)
                  THEN [st EXCEPT !.err = "KeyError"]
                  ELSE LET changed ==
                               With(interface, "bond_slaves",
                                    Get(interface, "bond_slaves", << >>)
                                    \o SysNames(sys, interface.raw_macs))
                       IN  RhStripAccumulating([st EXCEPT
                                      !.all = DictPut(st.all, iname, changed),
                                      !.kept = DictPut(st.kept, iname, changed)],
                                   i + 1, sys)
             ELSE RhStripAccumulating(
                     [st EXCEPT !.kept = DictPut(st.kept, iname, interface)],
                     i + 1, sys)

\* lines 462-483: strip out ignored interfaces; st = [all, kept, err], where
\* all is the caller's dict, whose records the loop changes in place
RECURSIVE RhStrip(_, _, _)
RhStrip(st, i, sys) ==
    IF i > Len(st.all) \/ st.err # "none" THEN st
    ELSE LET iname == st.all[i].key
             interface == st.all[i].val
         IN  IF "mac_address" \notin DOMAIN interface
             THEN [st EXCEPT !.err = "KeyError"]
             ELSE IF NoMatch(sys, RawMacs(interface))
             THEN RhStrip(st, i + 1, sys)
             ELSE IF "bond_links" \in DOMAIN interface
             THEN IF ~AllPresent(sys, interface.raw_macs)
                  THEN [st EXCEPT !.err = "KeyError"]
                  ELSE LET changed ==
                               Without(With(interface, "bond_slaves",
                                            SysNames(sys, interface.raw_macs)),
                                       "bond_links")
                       IN  RhStrip([st EXCEPT
                                      !.all = DictPut(st.all, iname, changed),
                                      !.kept = DictPut(st.kept, iname, changed)],
                                   i + 1, sys)
             ELSE RhStrip([st EXCEPT !.kept = DictPut(st.kept, iname, interface)],
                          i + 1, sys)

\* lines 489-505: the device name of a kept interface
RhInterfaceName(iname, interface, sys) ==
    IF "vlan_id" \in DOMAIN interface
    THEN LET raw_macs == RawMacs(interface)
             vlan_raw_device == IF Len(raw_macs) = 1
                                THEN Get(sys, raw_macs[1], "None")
                                ELSE interface.vlan_link
         IN  vlan_raw_device \o "." \o ToString(interface.vlan_id)
    ELSE IF "bond_mode" \in DOMAIN interface
    THEN Get(interface, "link", iname)
    ELSE sys[interface.mac_address]

\* lines 485-512: _interfaces_by_sys_name, a dict name -> list
RECURSIVE RhGroup(_, _, _)
RhGroup(groups, items, sys) ==
    IF items = << >> THEN groups
    ELSE LET name == RhInterfaceName(Head(items).key, Head(items).val, sys)
             old  == IF DictHas(groups, name) THEN DictGet(groups, name) ELSE << >>
         IN  RhGroup(DictPut(groups, name, Append(old, Head(items).val)),
                     Tail(items), sys)

\* lines 529-562: one network of one device; st = [files, err]
RhNetwork(st, name, interface, d, kf, a, bases) ==
    IF interface.type = "ipv4"
    THEN IF kf
         THEN LET r == _write_rh_keyfile_interface(name, interface, d, kf, a, bases)
              IN  IF r.err # "none" THEN [st EXCEPT !.err = r.err]
                  ELSE [st EXCEPT !.files = Update(st.files, r.files)]
         ELSE [st EXCEPT !.files =
                 Update(st.files, _write_rh_interface(name, interface, d, kf, a, bases))]
    ELSE IF interface.type = "ipv4_dhcp"
    THEN [st EXCEPT !.files =
            Update(st.files,
                   IF kf THEN _write_rh_keyfile_dhcp(name, interface, d, kf, a, bases)
                   ELSE _write_rh_dhcp(name, interface, d, kf, a, bases))]
    ELSE IF interface.type = "manual"
    THEN [st EXCEPT !.files =
            Update(st.files, _write_rh_manual(name, interface, d, kf, a, bases))]
    ELSE IF interface.type \in {"ipv6", "ipv6_slaac"}
    THEN IF kf THEN _write_rh_v6_keyfile_interface(name, interface, st.files)
         ELSE _write_rh_v6_interface(name, interface, d, st.files)
    ELSE st   \* Unhandled interface

RECURSIVE RhDevice(_, _, _, _, _, _, _)
RhDevice(st, name, group, d, kf, a, bases) ==
    IF group = << >> \/ st.err # "none" THEN st
    ELSE RhDevice(RhNetwork(st, name, Head(group), d, kf, a, bases),
                  name, Tail(group), d, kf, a, bases)

RECURSIVE RhDevices(_, _, _, _, _, _)
RhDevices(st, groups, d, kf, a, bases) ==
    IF groups = << >> \/ st.err # "none" THEN st
    ELSE RhDevices(RhDevice(st, Head(groups).key, SortedByType(Head(groups).val),
                            d, kf, a, bases),
                   Tail(groups), d, kf, a, bases)

\* lines 572-580: the test "does this interface already have a config file".
\* The condition of line 572 is the function is_keyfile_format itself, not
\* its result, and a function is always true: the keyfile is the one looked
\* for, whatever the format in use.
RhAlreadyConfigured(iname, d, kf, exists) ==
    _exists_rh_keyfile_interface(iname, exists)

\* lines 581-587
RhMentions(kept, mac) ==
    \/ \E i \in DOMAIN kept : kept[i].val.mac_address = mac
    \/ \E i \in DOMAIN kept : /\ "vlan_id" \in DOMAIN kept[i].val
                              /\ "link_mac" \in DOMAIN kept[i].val
                              /\ kept[i].val.link_mac = mac

\* lines 570-593: the DHCP fallback
RECURSIVE RhFallback(_, _, _, _, _, _, _, _)
RhFallback(files, macs, kept, sys, d, kf, a, exists) ==
    IF macs = << >> THEN files
    ELSE LET mac == Head(macs)
             iname == sys[mac]
             files2 ==
                 IF RhAlreadyConfigured(iname, d, kf, exists) THEN files
                 ELSE IF RhMentions(kept, mac) THEN files
                 ELSE Update(files,
                        IF kf
                        THEN _write_rh_keyfile_dhcp(iname, [mac_address |-> mac],
                                                    d, kf, a, {})
                        ELSE _write_rh_dhcp(iname, [mac_address |-> mac],
                                            d, kf, a, {}))
         IN  RhFallback(files2, Tail(macs), kept, sys, d, kf, a, exists)

\* the names a vlan device can be based on
DeviceBases(ifs, sys) ==
    { sys[m] : m \in DOMAIN sys } \cup { "None" }
    \cup { ifs[i].val.vlan_link :
             i \in { j \in DOMAIN ifs : "vlan_link" \in DOMAIN ifs[j].val } }

\* The whole function: [files, err, interfaces]
write_redhat_interfaces(ifs, sys, d, kf, a, exists) ==
    LET s1 == RhStrip([all |-> ifs, kept |-> << >>, err |-> "none"], 1, sys)
        groups == RhGroup(<< >>, SortedById(s1.kept), sys)
        s2 == RhDevices([files |-> << >>, err |-> "none"], groups, d, kf, a,
                        DeviceBases(ifs, sys))
    IN  IF s1.err # "none"
        THEN [files |-> << >>, err |-> s1.err, interfaces |-> s1.all]
        ELSE IF s2.err # "none"
        THEN [files |-> << >>, err |-> s2.err, interfaces |-> s1.all]
        ELSE IF a.no_dhcp_fallback
        THEN [files |-> s2.files, err |-> "none", interfaces |-> s1.all]
        ELSE [files |-> RhFallback(s2.files, SortedByName(sys, DOMAIN sys),
                                   s1.kept, sys, d, kf, a, exists),
              err |-> "none", interfaces |-> s1.all]

----------------------------------------------------------------------------
(* systemd-networkd *)

NetworkdNetwork(name) == "/etc/systemd/network/" \o name \o ".network"
NetworkdNetdev(name) == "/etc/systemd/network/" \o name \o ".netdev"

\* lines 895-898
_exists_networkd_interface(name, exists) ==
    NetworkdNetwork(name) \in exists \/ NetworkdNetdev(name) \in exists

\* files_struct[file][section].append(line), creating what is missing
FsAppend(fs, file, section, line) ==
    LET f == Get(fs, file, << >>)
    IN  With(fs, file, With(f, section, Append(Get(f, section, << >>), line)))

\* files_struct[file][section] exists (possibly empty)
FsEnsure(fs, file, section) ==
    LET f == Get(fs, file, << >>)
    IN  With(fs, file, With(f, section, Get(f, section, << >>)))

\* files_struct[file][section] = list()
FsReset(fs, file, section) ==
    With(fs, file, With(Get(fs, file, << >>), section, << >>))

FsLines(fs, file, section) == Get(Get(fs, file, << >>), section, << >>)

RECURSIVE FsAppendAll(_, _, _, _)
FsAppendAll(fs, file, section, lines) ==
    IF lines = << >> THEN fs
    ELSE FsAppendAll(FsAppend(fs, file, section, Head(lines)),
                     file, section, Tail(lines))

\* list.remove(x): the first occurrence
RemoveFirst(lines, x) ==
    IF x \notin SeqToSet(lines) THEN lines
    ELSE LET i == CHOOSE i \in DOMAIN lines :
                    lines[i] = x /\ \A j \in 1..(i - 1) : lines[j] # x
         IN  SubSeq(lines, 1, i - 1) \o SubSeq(lines, i + 1, Len(lines))

\* lines 627-635: the DNS= lines of the services of an interface
RECURSIVE DnsLines(_)
DnsLines(services) ==
    IF services = << >> THEN << >>
    ELSE (IF Head(services).type = "dns"
          THEN << "DNS=" \o Head(services).address >> ELSE << >>)
         \o DnsLines(Tail(services))

\* lines 684-706: the entries added to the list 'routes'
NetworkdRoutes(interface) ==
    LET routes == interface.routes
        v6 == interface.type \in {"ipv6", "ipv6_slaac", "ipv6_dhcpv6_stateful",
                                  "ipv6_dhcpv6-stateless"}
    IN  [i \in DOMAIN routes |->
           [route |-> IF "network" \in DOMAIN routes[i]
                      THEN "Destination=" \o routes[i].network \o "/"
                           \o ToString(IF v6
                                       THEN ipv6_netmask_length(routes[i].netmask)
                                       ELSE ipv4_netmask_length(routes[i].netmask))
                      ELSE "None",
            gw |-> IF "gateway" \in DOMAIN routes[i]
                   THEN "Gateway=" \o routes[i].gateway ELSE "None"]]

\* line 709: the condition is  'bond_mode' or ('vlan_id' in interface) , and
\* a non-empty string is true: the netdev file is created for every interface
NeedsNetdev(interface) == TRUE

\* lines 740-752: Bond= in the .network file of every slave
RECURSIVE NetworkdSlaves(_, _, _)
NetworkdSlaves(fs, slaves, iname) ==
    IF slaves = << >> THEN fs
    ELSE NetworkdSlaves(
            FsAppend(fs, NetworkdNetwork(Head(slaves)), "[Network]",
                     "Bond=" \o iname),
            Tail(slaves), iname)

\* lines 722-732: Kind=vlan and the [VLAN] section
NetdevVlan(fs, nd, interface) ==
    IF "vlan_id" \in DOMAIN interface
    THEN FsAppend(FsReset(FsAppend(fs, nd, "[NetDev]", "Kind=vlan"), nd, "[VLAN]"),
                  nd, "[VLAN]", "Id=" \o ToString(interface.vlan_id))
    ELSE fs

\* lines 734-739: Kind=bond and the [Bond] section
NetdevBond(fs, nd, interface) ==
    FsAppendAll(FsReset(FsAppend(fs, nd, "[NetDev]", "Kind=bond"), nd, "[Bond]"),
                nd, "[Bond]",
                << "Mode=" \o interface.bond_mode, "LACPTransmitRate=fast" >>)

\* lines 753-766: the optional bond parameters
NetdevBondOptions(fs, nd, interface) ==
    FsAppendAll(fs, nd, "[Bond]",
        (IF "bond_xmit_hash_policy" \in DOMAIN interface
         THEN << "TransmitHashPolicy=" \o interface.bond_xmit_hash_policy >>
         ELSE << >>)
        \o (IF "bond_miimon" \in DOMAIN interface
            THEN << "MIIMonitorSec=" \o interface.bond_miimon >> ELSE << >>))

\* lines 708-766: the netdev part of one interface
NetworkdNetdevPart(fs, iname, interface) ==
    LET nd == NetworkdNetdev(iname)
        f1 == FsAppendAll(fs, nd, "[NetDev]",
                << "Name=" \o iname >>
                \o (IF "mac_address" \in DOMAIN interface
                    THEN << "MACAddress=" \o interface.mac_address >> ELSE << >>))
        f3 == NetdevVlan(f1, nd, interface)
        b1 == NetdevBond(f3, nd, interface)
        b2 == NetworkdSlaves(b1, Get(interface, "slaves", << >>), iname)
        b3 == NetdevBondOptions(b2, nd, interface)
    IN  IF ~NeedsNetdev(interface) THEN fs
        ELSE IF "bond_mode" \in DOMAIN interface THEN b3
        ELSE f3

NetworkdKnownTypes ==
    {"ipv4_dhcp", "ipv6_slaac", "ipv6_dhcpv6_stateful", "manual", "ipv4", "ipv6"}

\* the interface name inside _write_networkd_interface
NetworkdIname(name, interface) ==
    IF "vlan_id" \in DOMAIN interface
    THEN name \o "-vlan" \o ToString(interface.vlan_id) ELSE name

\* lines 617-635: the [Network] section and the DNS servers
NetworkSection(fs, nf, interface, a) ==
    FsAppendAll(FsEnsure(fs, nf, "[Network]"), nf, "[Network]",
                IF "services" \in DOMAIN interface /\ ~a.skip_dns
                THEN DnsLines(interface.services) ELSE << >>)

\* lines 637-651: DHCP= for a DHCP type; 'other' is the DHCP= line of the
\* other address family, which turns the new line into DHCP=yes
NetworkDhcp(fs, nf, other, line) ==
    FsAppend(fs, nf, "[Network]",
             IF other \in SeqToSet(FsLines(fs, nf, "[Network]"))
             THEN "DHCP=yes" ELSE line)

\* lines 653-665: IPv6AcceptRA
NetworkAcceptRA(fs, nf, interface) ==
    LET lines == FsLines(fs, nf, "[Network]")
    IN  IF interface.type \in {"ipv6_slaac", "ipv6_dhcpv6-stateless"}
        THEN With(fs, nf, With(fs[nf], "[Network]",
                  Append(RemoveFirst(lines, "IPv6AcceptRA=no"), "IPv6AcceptRA=yes")))
        ELSE IF "IPv6AcceptRA=yes" \notin SeqToSet(lines)
        THEN FsAppend(fs, nf, "[Network]", "IPv6AcceptRA=no")
        ELSE fs

\* lines 667-682: the static address
NetworkAddress(fs, nf, interface) ==
    IF interface.type \in {"ipv4", "ipv6"}
    THEN FsAppend(fs, nf, "addresses",
           "Address=" \o interface.ip_address \o "/"
           \o ToString(IF interface.type = "ipv4"
                       THEN ipv4_netmask_length(interface.netmask)
                       ELSE ipv6_netmask_length(interface.netmask)))
    ELSE fs

\* lines 684-706: the routes
NetworkRoutes(fs, nf, interface) ==
    IF "routes" \in DOMAIN interface
    THEN FsAppendAll(FsEnsure(fs, nf, "routes"), nf, "routes",
                     NetworkdRoutes(interface))
    ELSE fs

\* lines 600-766: one iteration of the loop; st = [fs, err]
NetworkdInterface(st, name, interface, a) ==
    LET iname == NetworkdIname(name, interface)
        nf    == NetworkdNetwork(iname)
        f1 == FsAppendAll(st.fs, nf, "[Match]",
                          << "MACAddress=" \o interface.mac_address,
                             "Name=" \o iname >>)
        hasNetwork == \/ interface.type \in NetworkdKnownTypes
                      \/ "vlan_id" \in DOMAIN interface
                      \/ "bond_mode" \in DOMAIN interface
        f2 == IF hasNetwork THEN NetworkSection(f1, nf, interface, a) ELSE f1
        f3 == IF interface.type = "ipv4_dhcp"
              THEN NetworkDhcp(f2, nf, "DHCP=ipv6", "DHCP=ipv4")
              ELSE IF interface.type = "ipv6_dhcpv6_stateful"
              THEN NetworkDhcp(f2, nf, "DHCP=ipv4", "DHCP=ipv6")
              ELSE f2
        f5 == NetworkAcceptRA(f3, nf, interface)
        f6 == NetworkAddress(f5, nf, interface)
        f7 == NetworkRoutes(f6, nf, interface)
    IN  IF "mac_address" \notin DOMAIN interface
        THEN [st EXCEPT !.err = "KeyError"]
        ELSE IF ~hasNetwork /\ "[Network]" \notin DOMAIN f1[nf]
        THEN [st EXCEPT !.err = "KeyError"]
        ELSE [st EXCEPT !.fs = NetworkdNetdevPart(f7, iname, interface)]

RECURSIVE NetworkdInterfaces(_, _, _, _)
NetworkdInterfaces(st, name, interfs, a) ==
    IF interfs = << >> \/ st.err # "none" THEN st
    ELSE NetworkdInterfaces(NetworkdInterface(st, name, Head(interfs), a),
                            name, Tail(interfs), a)

\* the vlan names collected in the local list 'vlans'
RECURSIVE NetworkdVlans(_, _)
NetworkdVlans(name, interfs) ==
    IF interfs = << >> THEN << >>
    ELSE (IF "vlan_id" \in DOMAIN Head(interfs)
          THEN << NetworkdIname(name, Head(interfs)) >> ELSE << >>)
         \o NetworkdVlans(name, Tail(interfs))

\* lines 768-784: VLAN= in the file of the master and of the vlan
RECURSIVE NetworkdVlanMapping(_, _, _)
NetworkdVlanMapping(fs, master, vlans) ==
    IF vlans = << >> THEN fs
    ELSE NetworkdVlanMapping(
            FsAppend(FsAppend(fs, NetworkdNetwork(master), "[Network]",
                              "VLAN=" \o Head(vlans)),
                     NetworkdNetwork(Head(vlans)), "[Network]",
                     "VLAN=" \o Head(vlans)),
            master, Tail(vlans))

\* vlans[0].split('-')[0]: vlans[0] is <name>-vlan<id>, and no device name
\* of the universe holds a '-', so the first piece is the name itself
VlanMaster(vlan, name) == name

\* lines 598-786: [fs, err]
_write_networkd_interface(name, interfs, a, files_struct) ==
    LET st == NetworkdInterfaces([fs |-> files_struct, err |-> "none"],
                                 name, interfs, a)
        vlans == NetworkdVlans(name, interfs)
    IN  IF st.err # "none" \/ vlans = << >> THEN st
        ELSE [st EXCEPT !.fs = NetworkdVlanMapping(st.fs, VlanMaster(vlans[1], name),
                                                    vlans)]

\* The lines a networkd file can hold in a sorted section, ascending in
\* Python's string order: sorted(set(lines)) is taken with respect to it.
MacOrder == [i \in 1..MaxIndex |-> MacAddr(i)] \o << VlanMac, BondMac >>

DeviceOrder ==
    << "bond0", "bond0-vlan101" >>
    \o [i \in 1..(2 * MaxIndex) |->
          IF i % 2 = 1 THEN NicName((i + 1) \div 2)
          ELSE NicName(i \div 2) \o "-vlan101"]
    \o [i \in 1..MaxIndex |-> NetId(i)]
    \o [i \in 1..MaxIndex |-> PhysId(i)]
    \o << "vlan0" >>

Prefixed(prefix, values) == [i \in DOMAIN values |-> prefix \o values[i]]

LineOrder ==
    Prefixed("Bond=", DeviceOrder)
    \o << "DHCP=ipv4", "DHCP=ipv6", "DHCP=yes" >>
    \o << "DNS=8.8.4.4", "DNS=8.8.8.8" >>
    \o << "IPv6AcceptRA=no", "IPv6AcceptRA=yes", "Id=101" >>
    \o << "Kind=bond", "Kind=vlan", "LACPTransmitRate=fast" >>
    \o Prefixed("MACAddress=", MacOrder)
    \o << "Mode=802.3ad", "Mode=active-backup" >>
    \o Prefixed("Name=", DeviceOrder)
    \o Prefixed("VLAN=", DeviceOrder)

LineRank(l) == CHOOSE i \in DOMAIN LineOrder : LineOrder[i] = l

\* sorted(set(lines))
RECURSIVE SortedLines(_)
SortedLines(S) ==
    IF S = {} THEN << >>
    ELSE LET l == CHOOSE l \in S : \A o \in S : LineRank(l) <= LineRank(o)
         IN  << l >> \o SortedLines(S \ {l})

SortedSection(f, section) ==
    IF section \in DOMAIN f
    THEN << section >> \o SortedLines(SeqToSet(f[section])) \o << "" >>
    ELSE << >>

RECURSIVE AddressBlocks(_)
AddressBlocks(addresses) ==
    IF addresses = << >> THEN << >>
    ELSE << "[Address]", Head(addresses), "" >> \o AddressBlocks(Tail(addresses))

RECURSIVE RouteBlocks(_)
RouteBlocks(routes) ==
    IF routes = << >> THEN << >>
    ELSE << "[Route]" >>
         \o (IF Head(routes).route # "None" THEN << Head(routes).route >> ELSE << >>)
         \o (IF Head(routes).gw # "None" THEN << Head(routes).gw >> ELSE << >>)
         \o << "" >>
         \o RouteBlocks(Tail(routes))

\* lines 847-891: one file of files_struct as text
NetworkdFileContents(f) ==
    << "# Automatically generated, do not edit" >>
    \o SortedSection(f, "[Match]")
    \o SortedSection(f, "[Network]")
    \o AddressBlocks(Get(f, "addresses", << >>))
    \o RouteBlocks(Get(f, "routes", << >>))
    \o SortedSection(f, "[NetDev]")
    \o SortedSection(f, "[VLAN]")
    \o SortedSection(f, "[Bond]")

\* lines 794-816: the matched interfaces grouped by their tuple of raw MACs;
\* st = [all, gen, err], gen an insertion-ordered dict tuple -> list
RECURSIVE GroupByMacs(_, _, _)
GroupByMacs(st, items, sys) ==
    IF items = << >> \/ st.err # "none" THEN st
    ELSE LET iname == Head(items).key
             interface == Head(items).val
         IN  IF "mac_address" \notin DOMAIN interface
             THEN [st EXCEPT !.err = "KeyError"]
             ELSE IF NoMatch(sys, RawMacs(interface))
             THEN GroupByMacs(st, Tail(items), sys)
             ELSE IF "bond_mode" \in DOMAIN interface
                     /\ ~AllPresent(sys, interface.raw_macs)
             THEN [st EXCEPT !.err = "KeyError"]
             ELSE LET changed ==
                          IF "bond_mode" \in DOMAIN interface
                          THEN With(interface, "slaves",
                                    SysNames(sys, interface.raw_macs))
                          ELSE interface
                      key == RawMacs(changed)
                      old == IF DictHas(st.gen, key) THEN DictGet(st.gen, key)
                             ELSE << >>
                  IN  GroupByMacs(
                        [st EXCEPT !.all = DictPut(st.all, iname, changed),
                                   !.gen = DictPut(st.gen, key, Append(old, changed))],
                        Tail(items), sys)

\* lines 819-826 (1035-1042 for Gentoo): the name of a group; "" stands for
\* the StopIteration of next() when no member of the group is a bond
GroupName(raw_macs, interfs, sys) ==
    IF Len(raw_macs) = 1 THEN sys[raw_macs[1]]
    ELSE IF \E i \in DOMAIN interfs : "bond_mode" \in DOMAIN interfs[i]
    THEN LET intf == interfs[CHOOSE i \in DOMAIN interfs :
                        /\ "bond_mode" \in DOMAIN interfs[i]
                        /\ \A j \in 1..(i - 1) : "bond_mode" \notin DOMAIN interfs[j]]
         IN  Get(intf, "link", intf.id)
    ELSE ""

RECURSIVE NetworkdGroups(_, _, _, _)
NetworkdGroups(st, gen, sys, a) ==
    IF gen = << >> \/ st.err # "none" THEN st
    ELSE LET name == GroupName(Head(gen).key, Head(gen).val, sys)
         IN  IF name = "" THEN [st EXCEPT !.err = "StopIteration"]
             ELSE NetworkdGroups(
                    _write_networkd_interface(name, Head(gen).val, a, st.fs),
                    Tail(gen), sys, a)

\* the fallback of lines 830-845 without the test of line 840: the DHCP entry
\* is written although the fallback is disabled
RECURSIVE NetworkdFallbackAlways(_, _, _, _, _, _)
NetworkdFallbackAlways(st, macs, gen, sys, a, exists) ==
    IF macs = << >> \/ st.err # "none" THEN st
    ELSE LET mac == Head(macs)
             iname == sys[mac]
             st2 == IF _exists_networkd_interface(iname, exists) THEN st
                    ELSE IF DictHas(gen, << mac >>) THEN st
                    ELSE _write_networkd_interface(
                            iname, << [type |-> "ipv4_dhcp", mac_address |-> mac] >>,
                            a, st.fs)
         IN  NetworkdFallbackAlways(st2, Tail(macs), gen, sys, a, exists)

\* lines 830-845: the DHCP fallback
RECURSIVE NetworkdFallback(_, _, _, _, _, _)
NetworkdFallback(st, macs, gen, sys, a, exists) ==
    IF macs = << >> \/ st.err # "none" THEN st
    ELSE LET mac == Head(macs)
             iname == sys[mac]
             st2 == IF _exists_networkd_interface(iname, exists) THEN st
                    ELSE IF DictHas(gen, << mac >>) THEN st
                    ELSE IF a.no_dhcp_fallback THEN st
                    ELSE _write_networkd_interface(
                            iname, << [type |-> "ipv4_dhcp", mac_address |-> mac] >>,
                            a, st.fs)
         IN  NetworkdFallback(st2, Tail(macs), gen, sys, a, exists)

\* The whole function: [files, err, interfaces]
write_networkd_interfaces(ifs, sys, a, exists) ==
    LET g  == GroupByMacs([all |-> ifs, gen |-> << >>, err |-> "none"],
                          SortedById(ifs), sys)
        s1 == NetworkdGroups([fs |-> << >>, err |-> "none"], g.gen, sys, a)
        s2 == NetworkdFallback(s1, SortedByName(sys, DOMAIN sys), g.gen, sys, a,
                               exists)
    IN  IF g.err # "none" THEN [files |-> << >>, err |-> g.err, interfaces |-> g.all]
        ELSE IF s2.err # "none"
        THEN [files |-> << >>, err |-> s2.err, interfaces |-> g.all]
        ELSE [files |-> [f \in DOMAIN s2.fs |-> NetworkdFileContents(s2.fs[f])],
              err |-> "none", interfaces |-> g.all]

----------------------------------------------------------------------------
(* Gentoo / OpenRC *)

GentooPath(name) == "/etc/conf.d/net." \o name
GentooInit(name) == "/etc/init.d/net." \o name

\* lines 901-903
_exists_gentoo_interface(name, exists) == GentooPath(name) \in exists

\* lines 906-909: the command run
_enable_gentoo_interface(name) == "rc-update add net." \o name \o " default"

\* lines 929-951: routes_<name>="..." with one route per line
GentooRouteText(route) ==
    IF IsDefaultRoute4(route) THEN "default via " \o route.gateway
    ELSE route.network \o " netmask " \o route.netmask \o " via " \o route.gateway

GentooRoutes(name, routes) ==
    LET n == Len(routes)
    IN  IF n = 0 THEN << >>
        ELSE [i \in 1..n |->
                (IF i = 1 THEN "routes_" \o name \o "=\"" ELSE "")
                \o GentooRouteText(routes[i])
                \o (IF i = n THEN "\"" ELSE "")]

GentooIname(name, interface) ==
    IF "vlan_id" \in DOMAIN interface
    THEN name \o "_" \o ToString(interface.vlan_id) ELSE name

\* lines 916-966: the text of one interface
GentooInterface(name, interface) ==
    LET iname == GentooIname(name, interface)
        mac   == "mac_" \o iname \o "=\"" \o interface.mac_address \o "\""
    IN  (IF interface.type = "ipv4"
         THEN << "config_" \o iname \o "=\"" \o interface.ip_address
                   \o " netmask " \o interface.netmask \o "\"",
                 mac >>
              \o GentooRoutes(name, Get(interface, "routes", << >>))
         ELSE IF interface.type = "manual"
         THEN << "config_" \o iname \o "=\"null\"", mac >>
         ELSE << "config_" \o iname \o "=\"dhcp\"", mac >>)
        \o (IF "bond_mode" \in DOMAIN interface
            THEN << "slaves_" \o iname \o "=\"" \o Join(interface.slaves, " ") \o "\"",
                    "mode_" \o iname \o "=\"" \o interface.bond_mode \o "\"" >>
            ELSE << >>)

RECURSIVE GentooResults(_, _)
GentooResults(name, interfs) ==
    IF interfs = << >> THEN << >>
    ELSE GentooInterface(name, Head(interfs)) \o GentooResults(name, Tail(interfs))

RECURSIVE GentooVlanIds(_)
GentooVlanIds(interfs) ==
    IF interfs = << >> THEN << >>
    ELSE (IF "vlan_id" \in DOMAIN Head(interfs)
          THEN << ToString(Head(interfs).vlan_id) >> ELSE << >>)
         \o GentooVlanIds(Tail(interfs))

\* the rc-update calls _write_gentoo_interface makes
RECURSIVE GentooEnables(_, _)
GentooEnables(name, interfs) ==
    IF interfs = << >> THEN << >>
    ELSE (IF Head(interfs).type # "ipv4"
          THEN << _enable_gentoo_interface(GentooIname(name, Head(interfs))) >>
          ELSE << >>)
         \o GentooEnables(name, Tail(interfs))

\* lines 912-976: the FileMap of one device
_write_gentoo_interface(name, interfs) ==
    LET vlans == GentooVlanIds(interfs)
    IN  GentooPath(name) :>
          (<< "# Automatically generated, do not edit" >>
           \o (IF vlans # << >>
               THEN << "vlans_" \o name \o "=\"" \o Join(vlans, " ") \o "\"" >>
               ELSE << >>)
           \o GentooResults(name, interfs))

\* lines 994-1001: the calls made for one init script; links are the symlinks
\* that exist
_create_gentoo_net_symlink_and_enable(interface_name, links) ==
    IF GentooInit(interface_name) \notin links
    THEN << "ln -s /etc/init.d/net.lo " \o GentooInit(interface_name),
            _enable_gentoo_interface(interface_name) >>
    ELSE << >>

\* lines 979-991: [calls, links]
RECURSIVE GentooInitLoop(_, _, _)
GentooInitLoop(st, sys_interface, interfs) ==
    IF interfs = << >> THEN st
    ELSE LET interface == Head(interfs)
             interface_name ==
                 IF "vlan_id" \in DOMAIN interface
                 THEN sys_interface \o "." \o ToString(interface.vlan_id)
                 ELSE sys_interface
             st2 == IF "bond_master" \in DOMAIN interface THEN st
                    ELSE [calls |-> st.calls \o
                             _create_gentoo_net_symlink_and_enable(interface_name,
                                                                   st.links),
                          links |-> st.links \cup {GentooInit(interface_name)}]
         IN  GentooInitLoop(st2, sys_interface, Tail(interfs))

_setup_gentoo_network_init(st, sys_interface, interfs) ==
    IF interfs = << >>
    THEN [calls |-> st.calls \o
             _create_gentoo_net_symlink_and_enable(sys_interface, st.links),
          links |-> st.links \cup {GentooInit(sys_interface)}]
    ELSE GentooInitLoop(st, sys_interface, interfs)

\* lines 1010-1011: ipv6 interfaces are left out before anything else
RECURSIVE GentooNoV6(_)
GentooNoV6(items) ==
    IF items = << >> THEN << >>
    ELSE (IF Head(items).val.type = "ipv6" THEN << >> ELSE << Head(items) >>)
         \o GentooNoV6(Tail(items))

\* lines 1034-1045; st = [files, err, calls, links]
RECURSIVE GentooGroups(_, _, _)
GentooGroups(st, gen, sys) ==
    IF gen = << >> \/ st.err # "none" THEN st
    ELSE LET name == GroupName(Head(gen).key, Head(gen).val, sys)
             init == _setup_gentoo_network_init(
                        [calls |-> st.calls \o GentooEnables(name, Head(gen).val),
                         links |-> st.links],
                        name, Head(gen).val)
         IN  IF name = "" THEN [st EXCEPT !.err = "StopIteration"]
             ELSE GentooGroups(
                    [st EXCEPT
                       !.files = Update(st.files,
                                        _write_gentoo_interface(name, Head(gen).val)),
                       !.calls = init.calls,
                       !.links = init.links],
                    Tail(gen), sys)

\* lines 1051-1063: the DHCP fallback
RECURSIVE GentooFallback(_, _, _, _, _)
GentooFallback(st, macs, gen, sys, exists) ==
    IF macs = << >> THEN st
    ELSE LET mac == Head(macs)
             iname == sys[mac]
             interface == [type |-> "ipv4_dhcp", mac_address |-> mac]
             init == _setup_gentoo_network_init(
                        [calls |-> st.calls
                                   \o GentooEnables(iname, << interface >>),
                         links |-> st.links],
                        iname, << >>)
             st2 == IF _exists_gentoo_interface(iname, exists) THEN st
                    ELSE IF DictHas(gen, << mac >>) THEN st
                    ELSE [st EXCEPT
                            !.files = Update(st.files,
                                _write_gentoo_interface(iname, << interface >>)),
                            !.calls = init.calls,
                            !.links = init.links]
         IN  GentooFallback(st2, Tail(macs), gen, sys, exists)

\* The whole function: [files, err, interfaces, calls]
write_gentoo_interfaces(ifs, sys, a, exists) ==
    LET g  == GroupByMacs([all |-> ifs, gen |-> << >>, err |-> "none"],
                          GentooNoV6(SortedById(ifs)), sys)
        s1 == GentooGroups([files |-> << >>, err |-> "none", calls |-> << >>,
                            links |-> exists], g.gen, sys)
        s2 == IF a.no_dhcp_fallback THEN s1
              ELSE GentooFallback(s1, SortedByName(sys, DOMAIN sys), g.gen, sys,
                                  exists)
    IN  IF g.err # "none"
        THEN [files |-> << >>, err |-> g.err, interfaces |-> g.all, calls |-> << >>]
        ELSE IF s1.err # "none"
        THEN [files |-> << >>, err |-> s1.err, interfaces |-> g.all,
              calls |-> s1.calls]
        ELSE [files |-> s2.files, err |-> "none", interfaces |-> g.all,
              calls |-> s2.calls]

----------------------------------------------------------------------------
(* The inputs of a run *)

PhysLink(i) ==
    [id |-> PhysId(i), type |-> "phy", ethernet_mac_address |-> DocMac(i)]

BondLink(k) ==
    [id |-> "bond0", type |-> "bond", ethernet_mac_address |-> DocBondMac,
     bond_mode |-> "802.3ad", bond_links |-> [i \in 1..k |-> PhysId(i)]]

VlanLink(parent) ==
    [id |-> "vlan0", type |-> "vlan", vlan_link |-> parent, vlan_id |-> 101,
     vlan_mac_address |-> DocVlanMac]

\* the link arrays: k physical links, then an optional bond of all of them,
\* then an optional vlan on p1, on the bond or on the undeclared link p0
LinkArrays ==
    { [i \in 1..k |-> PhysLink(i)]
      \o (IF bond THEN << BondLink(k) >> ELSE << >>)
      \o (IF parent = "" THEN << >> ELSE << VlanLink(parent) >>) :
        k \in 0..NumPhys,
        bond \in BOOLEAN,
        parent \in {"", "p0", "p1", "bond0"} }

WellFormed(links) ==
    LET ids == { links[i].id : i \in DOMAIN links }
    IN  \A i \in DOMAIN links :
          /\ links[i].type = "bond" => Len(links[i].bond_links) >= 1
          /\ links[i].type = "vlan" => links[i].vlan_link \in ids \cup {"p0"}

NetTypes == {"ipv4", "ipv4_dhcp", "ipv6"}

Network(n, link, type) ==
    IF type = "ipv4"
    THEN [id |-> NetId(n), link |-> link, type |-> type,
          ip_address |-> "10.0.0.5", netmask |-> "255.255.255.0",
          routes |-> << [network |-> "0.0.0.0", netmask |-> "0.0.0.0",
                         gateway |-> "10.0.0.1"] >>]
    ELSE IF type = "ipv6"
    THEN [id |-> NetId(n), link |-> link, type |-> type,
          ip_address |-> "2001:db8::5", netmask |-> "ffff:ffff:ffff:ffff::",
          routes |-> << [network |-> "::", netmask |-> "::",
                         gateway |-> "2001:db8::1"] >>]
    ELSE [id |-> NetId(n), link |-> link, type |-> type]

\* the network arrays for a link array: none, one network on one link, or,
\* when all links are physical, one network on each of the first two links
NetworkArrays(links) ==
    { << >> }
    \cup { << Network(1, links[i].id, t) >> : i \in DOMAIN links, t \in NetTypes }
    \cup IF Len(links) >= 2 /\ \A i \in DOMAIN links : links[i].type = "phy"
         THEN { << Network(1, links[1].id, t1), Network(2, links[2].id, t2) >> :
                  t1 \in NetTypes, t2 \in NetTypes }
         ELSE {}

\* documents with a topology, and the document without links and networks
TopologyDocuments ==
    UNION { { [links |-> l, networks |-> n] : n \in NetworkArrays(l) } :
              l \in { x \in LinkArrays : WellFormed(x) } }

EmptyDocument == [services |-> << >>]

\* the results get_sys_interfaces can return: any set of the host's cards
SysMaps ==
    { [m \in { MacAddr(i) : i \in S } |->
          NicName(CHOOSE i \in S : MacAddr(i) = m)] : S \in SUBSET (1..NumNics) }

\* the configuration files a run looks for on disk: those of the host's cards
DiskPaths(d, sys) ==
    LET names == { sys[m] : m \in DOMAIN sys }
    IN  IF d \in {"debian", "ubuntu"} THEN { DebianPath(n) : n \in names }
        ELSE IF d = "gentoo" THEN { GentooPath(n) : n \in names }
        ELSE IF d = "networkd"
        THEN { NetworkdNetwork(n) : n \in names } \cup { NetworkdNetdev(n) : n \in names }
        ELSE { IfcfgPath(d, n) : n \in names } \cup { KeyfilePath(n) : n \in names }

Distros == {"debian", "redhat", "opensuse", "networkd", "gentoo"}

----------------------------------------------------------------------------
(* The run of write_network_info_from_config_drive, up to the FileMap *)

Init ==
    /\ distro \in Distros
    /\ keyfile \in (IF distro = "redhat" THEN BOOLEAN ELSE {FALSE})
    /\ args \in [no_dhcp_fallback : BOOLEAN, skip_dns : {FALSE}, use_nm : {FALSE}]
    /\ net \in TopologyDocuments \cup {EmptyDocument}
    /\ sys_interfaces \in SysMaps
    /\ disk \in { S \in SUBSET DiskPaths(distro, sys_interfaces) : Cardinality(S) <= MaxDisk }
    /\ interfaces = << >>
    /\ files_to_write = << >>
    /\ pc = "start"
    /\ err = "none"
    /\ fidx = 0 /\ retries = 0 /\ faults = << >> /\ oplog = << >> /\ stdout = << >>
    /\ sysfs = << >> /\ if_dict = << >> /\ if_up_list = << >> /\ sweep = 0
    /\ cmdlog = << >>
    /\ lock = 0 /\ runs = << >>

\* lines 1345-1351: the addresses of the services of type dns
get_dns_from_config_drive(n) ==
    IF "services" \notin DOMAIN n THEN << >>
    ELSE LET dns == SelectSeq(n.services, LAMBDA f : f.type = "dns")
         IN  [i \in DOMAIN dns |-> dns[i].address]

\* the DNS files written although the run was told to skip them
DnsInfoAlways(a, n, resolved_enabled) ==
    IF get_dns_from_config_drive(n) = << >> THEN << >>
    ELSE ("/etc/resolv.conf" :>
            Prefixed("nameserver ", get_dns_from_config_drive(n)))

\* lines 1224-1268: resolved_enabled is the exit status of 'systemctl
\* is-enabled systemd-resolved'; /etc/systemd/resolved.conf is taken to have
\* no other section
write_dns_info(dns_servers, resolved_enabled) ==
    IF dns_servers = << >> THEN << >>
    ELSE IF resolved_enabled # 0
    THEN ("/etc/resolv.conf" :> Prefixed("nameserver ", dns_servers))
    ELSE ("/etc/systemd/resolved.conf" :>
            << "[Resolve]", "DNS = " \o Join(dns_servers, " "), "" >>)

\* lines 1650-1652: the files the run starts from
DnsInfo(a, n, resolved_enabled) ==
    IF a.skip_dns THEN << >>
    ELSE write_dns_info(get_dns_from_config_drive(n), resolved_enabled)

\* lines 1226-1231, 1651: the exit statuses 'systemctl is-enabled' can give;
\* it is run only for a document with DNS servers and without skip_dns, and
\* its status is 0 in the other runs, where nothing reads it
SystemctlStatus(a, n) ==
    IF a.skip_dns \/ get_dns_from_config_drive(n) = << >> THEN {0} ELSE {0, 1}

\* lines 1650-1653
GetConfigDriveInterfaces ==
    /\ pc = "start"
    /\ \E resolved_enabled \in SystemctlStatus(args, net) :
         files_to_write' = DnsInfo(args, net, resolved_enabled)
    /\ LET r == get_config_drive_interfaces(net)
       IN  /\ interfaces' = r.interfaces
           /\ err' = r.err
           /\ pc' = IF r.err = "none" THEN "parsed" ELSE "raised"
    /\ UNCHANGED << distro, keyfile, args, net, sys_interfaces, disk,
                    finishVars, scanVars, mainVars >>

\* lines 1358-1371, files_to_write.update: the end of a renderer, the FileMap
\* is returned or the exception goes up
Rendered(r) ==
    /\ files_to_write' = Update(files_to_write, r.files)
    /\ interfaces' = r.interfaces
    /\ err' = r.err
    /\ pc' = IF r.err = "none" THEN "rendered" ELSE "raised"
    /\ UNCHANGED << distro, keyfile, args, net, sys_interfaces, disk,
                    finishVars, sysfs, if_dict, if_up_list, sweep, mainVars >>

\* lines 1357-1359
WriteDebianInterfaces ==
    /\ pc = "parsed"
    /\ distro \in {"debian", "ubuntu"}
    /\ Rendered(write_debian_interfaces(interfaces, sys_interfaces, args, disk))
    /\ UNCHANGED cmdlog

\* lines 1360-1363
WriteRedhatInterfaces ==
    /\ pc = "parsed"
    /\ distro \in {"redhat", "centos", "fedora", "rocky"} \/ _is_suse(distro)
    /\ Rendered(write_redhat_interfaces(interfaces, sys_interfaces, distro,
                                        keyfile, args, disk))
    /\ UNCHANGED cmdlog

\* lines 1364-1367
WriteGentooInterfaces ==
    /\ pc = "parsed"
    /\ distro = "gentoo"
    /\ LET r == write_gentoo_interfaces(interfaces, sys_interfaces, args, disk)
       IN  Rendered(r) /\ cmdlog' = r.calls

\* lines 1368-1371
WriteNetworkdInterfaces ==
    /\ pc = "parsed"
    /\ distro = "networkd"
    /\ Rendered(write_networkd_interfaces(interfaces, sys_interfaces, args, disk))
    /\ UNCHANGED cmdlog

Next ==
    \/ GetConfigDriveInterfaces
    \/ WriteDebianInterfaces
    \/ WriteRedhatInterfaces
    \/ WriteGentooInterfaces
    \/ WriteNetworkdInterfaces

Spec == Init /\ [][Next]_vars

----------------------------------------------------------------------------
(* The same run for one card with static networks and their routes *)

MaxRoutes == 2

\* the routes a static ipv4 network can declare: the default route and two
\* others
Routes4 ==
    << [network |-> "0.0.0.0", netmask |-> "0.0.0.0", gateway |-> "10.0.0.1"],
       [network |-> "192.168.0.0", netmask |-> "255.255.0.0", gateway |-> "10.0.0.2"],
       [network |-> "172.16.1.0", netmask |-> "255.255.255.0", gateway |-> "10.0.0.3"] >>

\* the routes a static ipv6 network can declare
Routes6 ==
    << [network |-> "::", netmask |-> "::", gateway |-> "2001:db8::1"],
       [network |-> "2001:db8:1::", netmask |-> "ffff:ffff:ffff::",
        gateway |-> "2001:db8::2"] >>

\* the route lists over a table: at most MaxRoutes routes, none twice
RouteLists(table) ==
    UNION { { r \in [1..n -> SeqToSet(table)] :
                \A i, j \in 1..n : i # j => r[i] # r[j] } : n \in 0..MaxRoutes }

StaticNetwork(n, link, type, routes) ==
    [Network(n, link, type) EXCEPT !.routes = routes]

\* one physical link with a static ipv4 network, a static ipv6 network, or both
RouteDocuments ==
    { [links |-> << PhysLink(1) >>,
       networks |-> << StaticNetwork(1, PhysId(1), "ipv4", r) >>] :
        r \in RouteLists(Routes4) }
    \cup { [links |-> << PhysLink(1) >>,
            networks |-> << StaticNetwork(1, PhysId(1), "ipv6", r) >>] :
             r \in RouteLists(Routes6) }
    \cup { [links |-> << PhysLink(1) >>,
            networks |-> << StaticNetwork(1, PhysId(1), "ipv4", r4),
                            StaticNetwork(2, PhysId(1), "ipv6", r6) >>] :
             r4 \in RouteLists(Routes4), r6 \in RouteLists(Routes6) }

RouteInit ==
    /\ distro \in Distros
    /\ keyfile \in (IF distro = "redhat" THEN BOOLEAN ELSE {FALSE})
    /\ args \in [no_dhcp_fallback : BOOLEAN, skip_dns : {FALSE}, use_nm : {FALSE}]
    /\ net \in RouteDocuments
    /\ sys_interfaces = (MacAddr(1) :> NicName(1))
    /\ disk = {}
    /\ interfaces = << >>
    /\ files_to_write = << >>
    /\ pc = "start"
    /\ err = "none"
    /\ fidx = 0 /\ retries = 0 /\ faults = << >> /\ oplog = << >> /\ stdout = << >>
    /\ sysfs = << >> /\ if_dict = << >> /\ if_up_list = << >> /\ sweep = 0
    /\ cmdlog = << >>
    /\ lock = 0 /\ runs = << >>

RouteSpec == RouteInit /\ [][Next]_vars

----------------------------------------------------------------------------
(* The keyfile run for one card with an ipv6 network *)

\* the netmasks an ipv6 network can declare: prefix lengths 64, 128 and 8,
\* and a text that is no netmask
Netmasks6 ==
    { "ffff:ffff:ffff:ffff::", "ffff:ffff:ffff:ffff:ffff:ffff:ffff:ffff",
      "ff00::", "bogus" }

\* the ipv6 networks on the card: static or slaac, with or without an
\* address, with or without a netmask
Networks6 ==
    { [id |-> NetId(2), link |-> PhysId(1), type |-> t, ip_address |-> a,
       netmask |-> m, routes |-> r] :
        t \in {"ipv6", "ipv6_slaac"}, a \in {"2001:db8::5", ""},
        m \in Netmasks6, r \in RouteLists(Routes6) }
    \cup { [id |-> NetId(2), link |-> PhysId(1), type |-> t, ip_address |-> a,
            routes |-> r] :
             t \in {"ipv6", "ipv6_slaac"}, a \in {"2001:db8::5", ""},
             r \in RouteLists(Routes6) }

\* one physical link with an ipv6 network, after a static ipv4 network or
\* alone
V6Documents ==
    { [links |-> << PhysLink(1) >>,
       networks |-> << Network(1, PhysId(1), "ipv4"), n >>] : n \in Networks6 }
    \cup { [links |-> << PhysLink(1) >>, networks |-> << n >>] : n \in Networks6 }

V6Init ==
    /\ distro = "redhat"
    /\ keyfile = TRUE
    /\ args \in [no_dhcp_fallback : {FALSE}, skip_dns : {FALSE}, use_nm : {FALSE}]
    /\ net \in V6Documents
    /\ sys_interfaces = (MacAddr(1) :> NicName(1))
    /\ disk = {}
    /\ interfaces = << >>
    /\ files_to_write = << >>
    /\ pc = "start"
    /\ err = "none"
    /\ fidx = 0 /\ retries = 0 /\ faults = << >> /\ oplog = << >> /\ stdout = << >>
    /\ sysfs = << >> /\ if_dict = << >> /\ if_up_list = << >> /\ sweep = 0
    /\ cmdlog = << >>
    /\ lock = 0 /\ runs = << >>

V6Next ==
    \/ GetConfigDriveInterfaces
    \/ WriteRedhatInterfaces

V6Spec == V6Init /\ [][V6Next]_vars

----------------------------------------------------------------------------
(* The same run for one card and a document that declares services *)

\* the services a document or a network can declare
Services ==
    << [type |-> "dns", address |-> "8.8.8.8"],
       [type |-> "dns", address |-> "8.8.4.4"],
       [type |-> "ntp", address |-> "10.0.0.9"] >>

ServiceLists ==
    { << >>, << Services[1] >>, << Services[1], Services[2] >>,
      << Services[3], Services[2] >> }

\* a network with or without services
ServicedNetworks ==
    { Network(1, PhysId(1), t) : t \in {"ipv4", "ipv4_dhcp"} }
    \cup { With(Network(1, PhysId(1), t), "services", l) :
             t \in {"ipv4", "ipv4_dhcp"}, l \in ServiceLists }

\* one physical link with one network, with or without services of the
\* document
DnsDocuments ==
    { [links |-> << PhysLink(1) >>, networks |-> << n >>] :
        n \in ServicedNetworks }
    \cup { [links |-> << PhysLink(1) >>, networks |-> << n >>, services |-> l] :
             n \in ServicedNetworks, l \in ServiceLists }

DnsInit ==
    /\ distro \in Distros
    /\ keyfile \in (IF distro = "redhat" THEN BOOLEAN ELSE {FALSE})
    /\ args \in [no_dhcp_fallback : {FALSE}, skip_dns : BOOLEAN, use_nm : {FALSE}]
    /\ net \in DnsDocuments
    /\ sys_interfaces = (MacAddr(1) :> NicName(1))
    /\ disk = {}
    /\ interfaces = << >>
    /\ files_to_write = << >>
    /\ pc = "start"
    /\ err = "none"
    /\ fidx = 0 /\ retries = 0 /\ faults = << >> /\ oplog = << >> /\ stdout = << >>
    /\ sysfs = << >> /\ if_dict = << >> /\ if_up_list = << >> /\ sweep = 0
    /\ cmdlog = << >>
    /\ lock = 0 /\ runs = << >>

DnsSpec == DnsInit /\ [][Next]_vars

----------------------------------------------------------------------------
(* finish_files: the FileMap goes to disk, or to stdout in no-op mode *)

MaxFiles == 3
MaxFaults == 2

\* The paths of the FileMaps handed to finish_files, ascending in Python's
\* string order: sorted(files_to_write.keys()) is taken with respect to it.
PathOrder ==
    << "/etc/network/interfaces",
       "/etc/network/interfaces.d/eth0.cfg",
       "/etc/resolv.conf",
       "/etc/sysconfig/network-scripts/ifcfg-eth0",
       "/etc/systemd/network/eth0.network" >>

PathRank(k) == CHOOSE i \in DOMAIN PathOrder : PathOrder[i] = k

\* the keys in the opposite order, as a dict without sorted() may give them
RECURSIVE UnsortedPaths(_)
UnsortedPaths(S) ==
    IF S = {} THEN << >>
    ELSE LET k == CHOOSE k \in S : \A o \in S : PathRank(k) >= PathRank(o)
         IN  << k >> \o UnsortedPaths(S \ {k})

\* line 1379: sorted(files_to_write.keys())
RECURSIVE SortedPaths(_)
SortedPaths(S) ==
    IF S = {} THEN << >>
    ELSE LET k == CHOOSE k \in S : \A o \in S : PathRank(k) <= PathRank(o)
         IN  << k >> \o SortedPaths(S \ {k})

\* a content as the string the FileMap holds: every line ends with a newline
RECURSIVE Text(_)
Text(lines) ==
    IF lines = << >> THEN "" ELSE Head(lines) \o "\n" \o Text(Tail(lines))

\* the contents of the FileMaps: the empty string, one line, two lines
Contents == { << >>, << "auto lo" >>, << "auto lo", "iface lo inet loopback" >> }

FileMaps ==
    UNION { [P -> Contents] :
              P \in SUBSET { PathOrder[i] : i \in 1..MaxFiles } }

\* the errno of a failing open(), and of a failing write, flush or fsync
OpenErrors == { "ELOOP", "EACCES", "EIO" }
WriteErrors == { "ENOSPC" }

\* the test of line 1382 left out: every entry counts as having content
NeverBlank(content) == FALSE

\* line 1382: not files_to_write[k]
IsBlank(content) == content = << >>

\* the handler retrying after every ELOOP, whatever the number of retries
RetryEveryEloop(e, r) ==
    IF e = "ELOOP" THEN "retry" ELSE IF e = "EACCES" THEN "skip" ELSE "raise"

\* the handler without the branch of lines 1409-1411: EACCES is raised
EaccesRaises(e, r) ==
    IF e = "ELOOP" /\ r < 1 THEN "retry" ELSE "raise"

\* lines 1403-1413: what the handler does with an IOError of errno e after
\* r retries
ErrnoHandling(e, r) ==
    IF e = "ELOOP" /\ r < 1 THEN "retry"
    ELSE IF e = "EACCES" THEN "skip"
    ELSE "raise"

FinishInit ==
    /\ files_to_write \in FileMaps
    /\ args \in [noop : BOOLEAN]
    /\ pc = "loop"
    /\ fidx = 1
    /\ retries = 0
    /\ faults = 0
    /\ oplog = << >>
    /\ stdout = << >>
    /\ err = "none"
    /\ distro = "" /\ keyfile = FALSE /\ net = << >> /\ sys_interfaces = << >>
    /\ disk = {} /\ interfaces = << >>
    /\ sysfs = << >> /\ if_dict = << >> /\ if_up_list = << >> /\ sweep = 0
    /\ cmdlog = << >>
    /\ lock = 0 /\ runs = << >>

finishFrame ==
    << distro, keyfile, args, net, sys_interfaces, disk, interfaces,
       files_to_write, scanVars, mainVars >>

files == SortedPaths(DOMAIN files_to_write)

\* lines 1382-1385: an entry without content is passed over
SkipBlank ==
    /\ pc = "loop" /\ fidx <= Len(files)
    /\ IsBlank(files_to_write[files[fidx]])
    /\ fidx' = fidx + 1
    /\ UNCHANGED << pc, retries, faults, oplog, stdout, err, finishFrame >>

\* lines 1387-1389: no-op mode prints the entry
PrintEntry ==
    /\ pc = "loop" /\ fidx <= Len(files)
    /\ ~IsBlank(files_to_write[files[fidx]])
    /\ args.noop
    /\ stdout' = Append(stdout, "### Write " \o files[fidx] \o "\n"
                                \o Text(files_to_write[files[fidx]]))
    /\ fidx' = fidx + 1
    /\ UNCHANGED << pc, retries, faults, oplog, err, finishFrame >>

\* line 1391: the entry is to be written, no retry was made yet
BeginWrite ==
    /\ pc = "loop" /\ fidx <= Len(files)
    /\ ~IsBlank(files_to_write[files[fidx]])
    /\ ~args.noop
    /\ retries' = 0
    /\ pc' = "try"
    /\ UNCHANGED << fidx, faults, oplog, stdout, err, finishFrame >>

\* lines 1393-1398: the file is opened and written, the loop goes on
WriteOk ==
    /\ pc = "try"
    /\ oplog' = oplog \o << [op |-> "open", path |-> files[fidx], result |-> "ok"],
                           [op |-> "write", path |-> files[fidx], result |-> "ok",
                            data |-> Text(files_to_write[files[fidx]])] >>
    /\ fidx' = fidx + 1
    /\ pc' = "loop"
    /\ UNCHANGED << retries, faults, stdout, err, finishFrame >>

\* lines 1399-1413: open() raises; the handler unlinks and retries after the
\* first ELOOP, passes over the file after EACCES, and re-raises otherwise
OpenFails ==
    /\ pc = "try" /\ faults < MaxFaults
    /\ faults' = faults + 1
    /\ \E e \in OpenErrors :
         LET failed == Append(oplog, [op |-> "open", path |-> files[fidx],
                                      result |-> e])
         IN  IF ErrnoHandling(e, retries) = "retry"
             THEN /\ oplog' = Append(failed, [op |-> "unlink", path |-> files[fidx],
                                              result |-> "ok"])
                  /\ retries' = 1
                  /\ UNCHANGED << pc, fidx, err >>
             ELSE IF ErrnoHandling(e, retries) = "skip"
             THEN /\ oplog' = failed
                  /\ fidx' = fidx + 1
                  /\ pc' = "loop"
                  /\ UNCHANGED << retries, err >>
             ELSE /\ oplog' = failed
                  /\ err' = e
                  /\ pc' = "raised"
                  /\ UNCHANGED << retries, fidx >>
    /\ UNCHANGED << stdout, finishFrame >>

\* lines 1405-1406: os.unlink raises inside the handler, nothing catches it
UnlinkFails ==
    /\ pc = "try" /\ faults < MaxFaults
    /\ ErrnoHandling("ELOOP", retries) = "retry"
    /\ faults' = faults + 1
    /\ oplog' = oplog \o << [op |-> "open", path |-> files[fidx], result |-> "ELOOP"],
                           [op |-> "unlink", path |-> files[fidx],
                            result |-> "EPERM"] >>
    /\ err' = "EPERM"
    /\ pc' = "raised"
    /\ UNCHANGED << fidx, retries, stdout, finishFrame >>

\* lines 1396-1397, 1412-1413: the file is open and the write, the flush or
\* the fsync raises an error that is neither ELOOP nor EACCES
WriteFails ==
    /\ pc = "try" /\ faults < MaxFaults
    /\ faults' = faults + 1
    /\ \E e \in WriteErrors :
         /\ oplog' = oplog \o << [op |-> "open", path |-> files[fidx],
                                  result |-> "ok"],
                                 [op |-> "write", path |-> files[fidx],
                                  result |-> e,
                                  data |-> Text(files_to_write[files[fidx]])] >>
         /\ err' = e
    /\ pc' = "raised"
    /\ UNCHANGED << fidx, retries, stdout, finishFrame >>

\* the loop of line 1381 is over: finish_files returns
FinishReturn ==
    /\ pc = "loop" /\ fidx > Len(files)
    /\ pc' = "done"
    /\ UNCHANGED << fidx, retries, faults, oplog, stdout, err, finishFrame >>

FinishNext ==
    \/ SkipBlank
    \/ PrintEntry
    \/ BeginWrite
    \/ WriteOk
    \/ OpenFails
    \/ UnlinkFails
    \/ WriteFails
    \/ FinishReturn

FinishSpec == FinishInit /\ [][FinishNext]_vars

----------------------------------------------------------------------------
(* get_sys_interfaces: the MAC -> name map of the host's cards *)

MaxLinkEvents == 2

\* line 51
PERMANENT_ADDR_TYPE == "0"

\* line 1571: range(0, 90)
SweepLimit == 90

\* lines 1490-1491
ignored_interfaces ==
    { "sit", "tunl", "bonding_master", "teql", "wg", "ip6gre", "ip6_vti",
      "ip6tnl", "bond", "lo" }

\* The entries of /sys/class/net: the cards, the loopback device and a
\* tunnel device, in the order os.listdir gives them.
SysNetNames == [i \in 1..NumNics |-> NicName(i)] \o << "lo", "sit0" >>

\* f.startswith(ignored_interfaces), for the names of SysNetNames
StartsWithIgnored(f) == f \in {"lo", "sit0"}

\* What the host says about a card: the marker its config file on disk holds
\* ("none" when there is no file), addr_assign_type, address and carrier; a
\* carrier of "EINVAL" is the errno 22 of a read while the link is down.
CardStates(i) ==
    [config : IF i = 1 THEN {"none", "vlan", "bridge"} ELSE {"none"},
     addr_assign_type : {"0", "3"},
     address : {MacAddr(i)},
     carrier : {"EINVAL", "1"}]

Loopback ==
    [config |-> "none", addr_assign_type |-> "0",
     address |-> "00:00:00:00:00:00", carrier |-> "1"]

\* the tunnel device: the kernel gives it addr_assign_type 0 as well
Tunnel ==
    [config |-> "none", addr_assign_type |-> "0",
     address |-> "00:00:00:00", carrier |-> "1"]

SysfsStates ==
    { [n \in SeqToSet(SysNetNames) |->
         IF n = "lo" THEN Loopback
         ELSE IF n = "sit0" THEN Tunnel
         ELSE cards[CHOOSE i \in 1..NumNics : NicName(i) = n]] :
      cards \in { c \in [1..NumNics -> UNION { CardStates(i) : i \in 1..NumNics }] :
                    \A i \in 1..NumNics :
                       /\ c[i] \in CardStates(i)
                       /\ (c[i].config # "none" => c[i].addr_assign_type = "0") } }

\* lines 1444-1462: the config file of the distro names the interface a vlan
is_interface_vlan(iface, d, fs) ==
    /\ d \in {"debian", "ubuntu", "redhat", "centos", "fedora", "rocky", "gentoo"}
       \/ _is_suse(d)
    /\ fs[iface].config = "vlan"

\* lines 1465-1483
is_interface_bridge(iface, d, fs) ==
    /\ d \in {"debian", "ubuntu", "redhat", "centos", "fedora", "rocky", "gentoo"}
       \/ _is_suse(d)
    /\ fs[iface].config = "bridge"

\* every interface taken to have carrier
AlwaysLive(iface, fs) == TRUE

\* lines 1416-1425: the carrier file reads 1
is_interface_live(iface, fs) == fs[iface].carrier = "1"

CarrierRead(iface, fs) ==
    [op |-> "read", path |-> iface \o "/carrier", result |-> fs[iface].carrier]

\* line 1577: the read of the carrier file by a sweep of the wait
SweepRead(iface, fs) ==
    [op |-> "poll", path |-> iface \o "/carrier", result |-> fs[iface].carrier]

\* the single-interface mode taken for the probe of all interfaces
never_from_udev == FALSE

\* lines 1494-1499: a single interface was named
called_from_udev == args.interface # "None"

\* lines 1496-1502: the list the loop of line 1505 goes through
ScanList(fs) ==
    IF args.interface # "None" THEN << args.interface >>
    ELSE SelectSeq(SysNetNames, LAMBDA f : ~StartsWithIgnored(f))

\* lines 1486-1504; main does not get here for --interface lo (line 1829)
ScanInit ==
    /\ distro = "debian"
    /\ args \in [noop : BOOLEAN,
                 interface : {"None"} \cup (SeqToSet(SysNetNames) \ {"lo"})]
    /\ sysfs \in SysfsStates
    /\ interfaces = ScanList(sysfs)
    /\ sys_interfaces = << >>
    /\ if_dict = << >>
    /\ if_up_list = << >>
    /\ sweep = 0
    /\ cmdlog = << >>
    /\ oplog = << >>
    /\ faults = 0
    /\ pc = "scan"
    /\ err = "none"
    /\ keyfile = FALSE /\ net = << >> /\ disk = {} /\ files_to_write = << >>
    /\ fidx = 0 /\ retries = 0 /\ stdout = << >>
    /\ lock = 0 /\ runs = << >>

scanFrame == << distro, keyfile, args, net, disk, files_to_write, fidx, retries,
                stdout, mainVars >>

\* the filters of lines 1507-1514 alone, without the test of line 1522
FilteredByConfigOnly(iface) ==
    \/ is_interface_vlan(iface, distro, sysfs)
    \/ is_interface_bridge(iface, distro, sysfs)

\* lines 1507-1524: is the interface passed over by the three filters
Filtered(iface) ==
    \/ is_interface_vlan(iface, distro, sysfs)
    \/ is_interface_bridge(iface, distro, sysfs)
    \/ sysfs[iface].addr_assign_type # PERMANENT_ADDR_TYPE

\* lines 1516-1525: the files of /sys/class/net read for an interface
FilterReads(iface) ==
    IF \/ is_interface_vlan(iface, distro, sysfs)
       \/ is_interface_bridge(iface, distro, sysfs)
    THEN << >>
    ELSE << [op |-> "read", path |-> iface \o "/addr_assign_type",
             result |-> sysfs[iface].addr_assign_type] >>
         \o (IF sysfs[iface].addr_assign_type # PERMANENT_ADDR_TYPE THEN << >>
             ELSE << [op |-> "read", path |-> iface \o "/address",
                      result |-> sysfs[iface].address] >>)

\* lines 1505-1524: a vlan, a bridge or a card without a permanent address
ScanSkip ==
    /\ pc = "scan" /\ interfaces # << >>
    /\ Filtered(Head(interfaces))
    /\ oplog' = oplog \o FilterReads(Head(interfaces))
    /\ interfaces' = Tail(interfaces)
    /\ UNCHANGED << pc, err, sys_interfaces, sysfs, if_dict, if_up_list, sweep,
                    cmdlog, faults, scanFrame >>

\* lines 1559-1562: the named interface is trusted and returned at once
ScanUdev ==
    /\ pc = "scan" /\ interfaces # << >>
    /\ ~Filtered(Head(interfaces))
    /\ called_from_udev
    /\ oplog' = oplog \o FilterReads(Head(interfaces))
    /\ sys_interfaces' = With(sys_interfaces, sysfs[Head(interfaces)].address,
                              Head(interfaces))
    /\ pc' = "returned"
    /\ UNCHANGED << err, interfaces, sysfs, if_dict, if_up_list, sweep, cmdlog,
                    faults, scanFrame >>

\* lines 1564-1566 with interface_live, lines 1428-1441: the interface has
\* carrier, or the run is a no-op, or the link is set up
ScanProbe ==
    /\ pc = "scan" /\ interfaces # << >>
    /\ ~Filtered(Head(interfaces))
    /\ ~called_from_udev
    /\ LET iface == Head(interfaces)
           live == is_interface_live(iface, sysfs)
       IN  /\ oplog' = oplog \o FilterReads(iface) \o << CarrierRead(iface, sysfs) >>
           /\ if_dict' = IF live \/ ~args.noop
                         THEN Append(if_dict, [key |-> iface,
                                               val |-> sysfs[iface].address])
                         ELSE if_dict
           /\ cmdlog' = IF live \/ args.noop THEN cmdlog
                        ELSE Append(cmdlog, "ip link set dev " \o iface \o " up")
           /\ sysfs' = IF live \/ args.noop \/ sysfs[iface].carrier # "EINVAL"
                       THEN sysfs
                       ELSE [sysfs EXCEPT ![iface].carrier = "0"]
    /\ interfaces' = Tail(interfaces)
    /\ UNCHANGED << pc, err, sys_interfaces, if_up_list, sweep, faults, scanFrame >>

\* line 1439: check_call raises CalledProcessError, nothing catches it
ScanProbeFails ==
    /\ pc = "scan" /\ interfaces # << >>
    /\ ~Filtered(Head(interfaces))
    /\ ~called_from_udev
    /\ ~is_interface_live(Head(interfaces), sysfs) /\ ~args.noop
    /\ oplog' = oplog \o FilterReads(Head(interfaces))
                \o << CarrierRead(Head(interfaces), sysfs) >>
    /\ cmdlog' = Append(cmdlog, "ip link set dev " \o Head(interfaces) \o " up")
    /\ err' = "CalledProcessError"
    /\ pc' = "raised"
    /\ UNCHANGED << interfaces, sys_interfaces, sysfs, if_dict, if_up_list, sweep,
                    faults, scanFrame >>

\* lines 1568-1570: the loop of line 1505 is over, the wait for the carriers begins
ScanLoopEnd ==
    /\ pc = "scan" /\ interfaces = << >>
    /\ if_up_list' = << >>
    /\ sweep' = 0
    /\ pc' = "wait"
    /\ UNCHANGED << err, interfaces, sys_interfaces, sysfs, if_dict, cmdlog, oplog,
                    faults, scanFrame >>

\* The log of the wait keeps one entry for a carrier file and the value read
\* from it, however many sweeps read that value again.
Logged(log, e) ==
    IF \E i \in DOMAIN log : log[i] = e THEN log ELSE Append(log, e)

\* a pass that polls the interfaces already seen up again
RECURSIVE SweepPassAgain(_, _)
SweepPassAgain(st, items) ==
    IF items = << >> THEN st
    ELSE LET iface == Head(items).key
             mac == Head(items).val
             live == is_interface_live(iface, sysfs)
         IN  SweepPassAgain(
                [sys |-> IF live THEN With(st.sys, mac, iface) ELSE st.sys,
                 up  |-> IF live /\ iface \notin SeqToSet(st.up)
                         THEN Append(st.up, iface) ELSE st.up,
                 log |-> Logged(st.log, SweepRead(iface, sysfs))],
                Tail(items))

\* lines 1572-1581: one pass over if_dict; st = [sys, up, log]
RECURSIVE SweepPass(_, _)
SweepPass(st, items) ==
    IF items = << >> THEN st
    ELSE LET iface == Head(items).key
             mac == Head(items).val
         IN  IF iface \in SeqToSet(st.up) THEN SweepPass(st, Tail(items))
             ELSE SweepPass(
                    [sys |-> IF is_interface_live(iface, sysfs)
                             THEN With(st.sys, mac, iface) ELSE st.sys,
                     up  |-> IF is_interface_live(iface, sysfs)
                             THEN Append(st.up, iface) ELSE st.up,
                     log |-> Logged(st.log, SweepRead(iface, sysfs))],
                    Tail(items))

\* lines 1571-1586: one sweep; the loop ends when every interface of if_dict
\* is up or the sweeps are used up, and the function returns
Sweep ==
    /\ pc = "wait" /\ sweep < SweepLimit
    /\ LET st == SweepPass([sys |-> sys_interfaces, up |-> if_up_list,
                            log |-> oplog], if_dict)
       IN  /\ sys_interfaces' = st.sys
           /\ if_up_list' = st.up
           /\ oplog' = st.log
           /\ IF SeqToSet(st.up) = { if_dict[i].key : i \in DOMAIN if_dict }
              THEN pc' = "returned" /\ sweep' = sweep
              ELSE /\ sweep' = sweep + 1
                   /\ pc' = IF sweep + 1 = SweepLimit THEN "returned" ELSE "wait"
    /\ UNCHANGED << err, interfaces, sysfs, if_dict, cmdlog, faults, scanFrame >>

\* the host: a link that is up gains or loses its carrier
LinkEvent ==
    /\ pc \in {"scan", "wait"} /\ faults < MaxLinkEvents
    /\ \E n \in DOMAIN sysfs :
         /\ ~StartsWithIgnored(n) /\ sysfs[n].carrier \in {"0", "1"}
         /\ sysfs' = [sysfs EXCEPT ![n].carrier = IF @ = "0" THEN "1" ELSE "0"]
    /\ faults' = faults + 1
    /\ UNCHANGED << pc, err, interfaces, sys_interfaces, if_dict, if_up_list, sweep,
                    cmdlog, oplog, scanFrame >>

ScanNext ==
    \/ ScanSkip
    \/ ScanUdev
    \/ ScanProbe
    \/ ScanProbeFails
    \/ ScanLoopEnd
    \/ Sweep
    \/ LinkEvent

ScanSpec == ScanInit /\ [][ScanNext]_vars

----------------------------------------------------------------------------
(* main: runs of glean that share /tmp/glean.lock *)

NumRuns == 2

Runs == 1..NumRuns

\* lines 1824-1829: the calls main makes inside the with block, in order
MainSteps == << "write_ssh_keys", "set_hostname_from_config_drive",
                "write_network_info_from_config_drive" >>

\* lines 1824-1829: is the call made with these options
StepEnabled(step, a) ==
    IF step = "write_ssh_keys" THEN a.ssh
    ELSE IF step = "set_hostname_from_config_drive" THEN a.hostname
    ELSE a.interface # "lo" /\ ~a.skip

\* the lock given back only when the block is left by its end
ReleasedOnReturnOnly(outcome) == outcome = "return"

\* line 1815: a with statement leaves its context manager on a return and on
\* an exception alike
LockReleasedOn(outcome) == outcome \in {"return", "raise"}

MainInit ==
    /\ lock = 0
    /\ runs \in [Runs -> [pc : {"start"}, step : {1}, acquired : {0},
                          outcome : {"none"},
                          args : [ssh : BOOLEAN, hostname : BOOLEAN,
                                  skip : BOOLEAN, interface : {"eth0"}]]]
    /\ oplog = << >>
    /\ pc = "main" /\ err = "none"
    /\ distro = "" /\ keyfile = FALSE /\ args = << >> /\ net = << >>
    /\ sys_interfaces = << >> /\ disk = {} /\ interfaces = << >>
    /\ files_to_write = << >>
    /\ fidx = 0 /\ retries = 0 /\ faults = 0 /\ stdout = << >>
    /\ sysfs = << >> /\ if_dict = << >> /\ if_up_list = << >> /\ sweep = 0
    /\ cmdlog = << >>

mainFrame == << distro, keyfile, args, net, sys_interfaces, disk, interfaces,
                files_to_write, pc, err, fidx, retries, faults, stdout, scanVars >>

\* Lock.__enter__: the lock is free and is taken
LockAcquire(p) ==
    /\ runs[p].pc = "start" /\ lock = 0
    /\ lock' = p
    /\ runs' = [runs EXCEPT ![p].pc = "locked", ![p].acquired = @ + 1]
    /\ UNCHANGED << oplog, mainFrame >>

\* Lock.__enter__: the lock is held by another run and this run fails fast
LockBusy(p) ==
    /\ runs[p].pc = "start" /\ lock # 0
    /\ runs' = [runs EXCEPT ![p].pc = "raised", ![p].outcome = "raise"]
    /\ UNCHANGED << lock, oplog, mainFrame >>

\* lines 1824-1829: a call that is not asked for is passed over
MainSkip(p) ==
    /\ runs[p].pc = "locked" /\ runs[p].step <= Len(MainSteps)
    /\ ~StepEnabled(MainSteps[runs[p].step], runs[p].args)
    /\ runs' = [runs EXCEPT ![p].step = @ + 1]
    /\ UNCHANGED << lock, oplog, mainFrame >>

\* lines 1824-1829: a call writes its files and returns
MainWrite(p) ==
    /\ runs[p].pc = "locked" /\ runs[p].step <= Len(MainSteps)
    /\ StepEnabled(MainSteps[runs[p].step], runs[p].args)
    /\ oplog' = Append(oplog, [op |-> "write", run |-> p,
                               by |-> MainSteps[runs[p].step], holder |-> lock])
    /\ runs' = [runs EXCEPT ![p].step = @ + 1]
    /\ UNCHANGED << lock, mainFrame >>

\* lines 1824-1829: a call raises (finish_files lets an IOError through)
MainRaise(p) ==
    /\ runs[p].pc = "locked" /\ runs[p].step <= Len(MainSteps)
    /\ StepEnabled(MainSteps[runs[p].step], runs[p].args)
    /\ runs' = [runs EXCEPT ![p].pc = "leaving", ![p].outcome = "raise"]
    /\ UNCHANGED << lock, oplog, mainFrame >>

\* line 1829: the end of the with block is reached
MainBlockEnd(p) ==
    /\ runs[p].pc = "locked" /\ runs[p].step > Len(MainSteps)
    /\ runs' = [runs EXCEPT ![p].pc = "leaving", ![p].outcome = "return"]
    /\ UNCHANGED << lock, oplog, mainFrame >>

\* lines 1815, 1830-1831: the with statement is left, main returns 0 or the
\* exception goes up
MainLeave(p) ==
    /\ runs[p].pc = "leaving"
    /\ lock' = IF LockReleasedOn(runs[p].outcome) THEN 0 ELSE lock
    /\ runs' = [runs EXCEPT ![p].pc = IF runs[p].outcome = "return"
                                      THEN "done" ELSE "raised"]
    /\ UNCHANGED << oplog, mainFrame >>

MainNext ==
    \E p \in Runs :
       \/ LockAcquire(p)
       \/ LockBusy(p)
       \/ MainSkip(p)
       \/ MainWrite(p)
       \/ MainRaise(p)
       \/ MainBlockEnd(p)
       \/ MainLeave(p)

MainSpec == MainInit /\ [][MainNext]_vars

----------------------------------------------------------------------------
(* Properties of the rendering pipeline *)

\* the topology as the parser returned it
Parsed == get_config_drive_interfaces(net).interfaces

\* the MACs an interface is matched by: raw_macs, or its single mac_address
MatchMacs(interface) ==
    IF "raw_macs" \in DOMAIN interface THEN SeqToSet(interface.raw_macs)
    ELSE IF "mac_address" \in DOMAIN interface THEN { interface.mac_address }
    ELSE {}

OwnMac(interface) ==
    IF "mac_address" \in DOMAIN interface THEN { interface.mac_address } ELSE {}

SharesNoMac(interface) == MatchMacs(interface) \cap DOMAIN sys_interfaces = {}

\* the parsed topology without the interfaces that share no MAC with the host
RECURSIVE MatchedOnly(_)
MatchedOnly(items) ==
    IF items = << >> THEN << >>
    ELSE (IF SharesNoMac(Head(items).val) THEN << >> ELSE << Head(items) >>)
         \o MatchedOnly(Tail(items))

\* the FileMap the renderer of the run's dialect returns for a topology
FileMapOf(ifs) ==
    IF distro = "debian"
    THEN write_debian_interfaces(ifs, sys_interfaces, args, disk).files
    ELSE IF distro = "gentoo"
    THEN write_gentoo_interfaces(ifs, sys_interfaces, args, disk).files
    ELSE IF distro = "networkd"
    THEN write_networkd_interfaces(ifs, sys_interfaces, args, disk).files
    ELSE write_redhat_interfaces(ifs, sys_interfaces, distro, keyfile, args,
                                 disk).files

\* the lines that carry the hardware address m in a rendered file
MacLines(m) ==
    { "    hwaddress " \o m, "    hw-mac-address " \o m, "HWADDR=" \o m,
      "LLADDR=" \o m, "mac_address=" \o m, "MACAddress=" \o m }

AllLines == UNION { SeqToSet(files_to_write[p]) : p \in DOMAIN files_to_write }

\* the FileMap is the one of the matched part of the topology parsed, and
\* none of the lines carries the hardware address of an unmatched interface
UnmatchedLeaveNothing(parsed, lines) ==
    /\ files_to_write = FileMapOf(MatchedOnly(parsed))
    /\ \A i \in DOMAIN parsed :
         SharesNoMac(parsed[i].val) =>
           \A m \in MatchMacs(parsed[i].val) \cup OwnMac(parsed[i].val) :
              MacLines(m) \cap lines = {}

\* C1: when a renderer returns, the FileMap is the one it returns for the
\* topology without the interfaces that share no MAC with the keys of the
\* system-interface map, and no line of it carries the hardware address of
\* such an interface: nothing is rendered from an unmatched interface.
C1_UnmatchedNeverRendered ==
    pc = "rendered" => UnmatchedLeaveNothing(Parsed, AllLines)

\* a run that rendered a matched interface and skipped an unmatched one
C1_Witness ==
    /\ pc = "rendered"
    /\ \E i \in DOMAIN Parsed : SharesNoMac(Parsed[i].val)
    /\ \E i \in DOMAIN Parsed :
         /\ ~SharesNoMac(Parsed[i].val)
         /\ \E m \in OwnMac(Parsed[i].val) : MacLines(m) \cap AllLines # {}

\* the files a dialect keeps for the system interface of a name
OwnFiles(name) ==
    IF distro = "debian" THEN { DebianPath(name) }
    ELSE IF distro = "gentoo" THEN { GentooPath(name) }
    ELSE IF distro = "networkd" THEN { NetworkdNetwork(name), NetworkdNetdev(name) }
    ELSE IF keyfile THEN { KeyfilePath(name) }
    ELSE { IfcfgPath(distro, name) }

ConfiguredOnDisk(name) == OwnFiles(name) \cap disk # {}

\* the system interfaces no config-drive interface is matched by
NotInConfigDrive ==
    { m \in DOMAIN sys_interfaces :
        \A i \in DOMAIN Parsed : m \notin MatchMacs(Parsed[i].val) }

\* the line that makes a file of a dialect a DHCP configuration of a name
DhcpLine(name) ==
    IF distro = "debian" THEN "iface " \o name \o " inet dhcp"
    ELSE IF distro = "gentoo" THEN "config_" \o name \o "=\"dhcp\""
    ELSE IF distro = "networkd" THEN "DHCP=ipv4"
    ELSE IF keyfile THEN "method=auto"
    ELSE "BOOTPROTO=dhcp"

\* C2: a system interface outside the config drive whose own-dialect file is
\* already on disk gets no entry in the returned FileMap.
C2_ConfiguredIsSkipped ==
    pc = "rendered" =>
      \A m \in NotInConfigDrive :
         ConfiguredOnDisk(sys_interfaces[m]) =>
            OwnFiles(sys_interfaces[m]) \cap DOMAIN files_to_write = {}

\* C3: with the fallback enabled, a system interface outside the config drive
\* and without an own-dialect file on disk has exactly one entry in the
\* returned FileMap, and that entry is a DHCP configuration.
C3_FallbackComplete ==
    pc = "rendered" /\ ~args.no_dhcp_fallback =>
      \A m \in NotInConfigDrive :
         ~ConfiguredOnDisk(sys_interfaces[m]) =>
            \E p \in OwnFiles(sys_interfaces[m]) :
               /\ OwnFiles(sys_interfaces[m]) \cap DOMAIN files_to_write = { p }
               /\ DhcpLine(sys_interfaces[m]) \in SeqToSet(files_to_write[p])

EmptyTopology == net = EmptyDocument

\* C4, as the specification states it: with the fallback disabled and an
\* empty topology the returned FileMap is empty in every dialect.
C4_EmptyFileMap ==
    pc = "rendered" /\ EmptyTopology /\ args.no_dhcp_fallback =>
      files_to_write = << >>

\* C4, amended: with the fallback disabled and an empty topology the FileMap
\* of the RedHat family, of networkd and of Gentoo is empty, and the FileMap
\* of Debian holds /etc/network/interfaces with the loopback stanza and the
\* source line, and nothing else.
C4_EmptyButDebianMain ==
    pc = "rendered" /\ EmptyTopology /\ args.no_dhcp_fallback =>
      IF distro = "debian"
      THEN files_to_write =
             ("/etc/network/interfaces" :>
                << "auto lo", "iface lo inet loopback",
                   "source /etc/network/interfaces.d/*.cfg" >>)
      ELSE files_to_write = << >>

\* a run without topology and without fallback on a host with a card
C4_Witness ==
    /\ pc = "rendered" /\ EmptyTopology /\ args.no_dhcp_fallback
    /\ DOMAIN sys_interfaces # {}

\* C5: with an empty topology, the fallback enabled and no file on disk, the
\* returned FileMap holds one DHCP entry for each of the N system interfaces
\* and no other file.
C5_ExactlyNDhcpEntries ==
    pc = "rendered" /\ EmptyTopology /\ ~args.no_dhcp_fallback /\ disk = {} =>
      /\ Cardinality(DOMAIN files_to_write) = Cardinality(DOMAIN sys_interfaces)
      /\ \A m \in DOMAIN sys_interfaces :
           \E p \in OwnFiles(sys_interfaces[m]) \cap DOMAIN files_to_write :
              DhcpLine(sys_interfaces[m]) \in SeqToSet(files_to_write[p])

----------------------------------------------------------------------------
(* Properties of finish_files *)

\* the operations made on the path k, in order
OpsOn(k) == SelectSeq(oplog, LAMBDA o : o.path = k)

NumOps(k, op, results) ==
    Cardinality({ i \in DOMAIN oplog :
                    /\ oplog[i].path = k /\ oplog[i].op = op
                    /\ oplog[i].result \in results })

\* what no-op mode prints for the entry of the path k
Chunk(k) == "### Write " \o k \o "\n" \o Text(files_to_write[k])

NumPrints(k) == Cardinality({ i \in DOMAIN stdout : stdout[i] = Chunk(k) })

\* C6: per file at most one unlink is made, and only right after the first
\* open of the file failed with ELOOP; the file is then opened once more and
\* no further time; a second ELOOP is the last operation of the run, which
\* raises it; the content is written at most once, and exactly once when the
\* retry succeeds.
C6_OneUnlinkOneRetry ==
    \A k \in DOMAIN files_to_write :
      LET ops == OpsOn(k)
          loops == { i \in DOMAIN ops :
                       ops[i].op = "open" /\ ops[i].result = "ELOOP" }
      IN  /\ NumOps(k, "unlink", {"ok", "EPERM"}) <= 1
          /\ NumOps(k, "open", {"ok"} \cup OpenErrors) <= 2
          /\ NumOps(k, "write", {"ok"} \cup WriteErrors) <= 1
          /\ \A i \in DOMAIN ops :
               ops[i].op = "unlink" => i = 2 /\ 1 \in loops
          /\ \A i \in loops :
               IF i = 1
               THEN /\ Len(ops) >= 2 /\ ops[2].op = "unlink"
                    /\ (pc = "done" /\ ops[2].result = "ok" =>
                          NumOps(k, "open", {"ok"} \cup OpenErrors) = 2)
               ELSE /\ i = Len(ops) /\ oplog[Len(oplog)] = ops[i]
                    /\ pc = "raised" /\ err = "ELOOP"
          /\ (Len(ops) >= 3 /\ ops[3].result = "ok" =>
                /\ Len(ops) = 4
                /\ ops[4].op = "write"
                /\ ops[4].data = Text(files_to_write[k]))

\* a run that unlinked a dangling symlink, wrote the file and returned
C6_Witness ==
    /\ pc = "done"
    /\ \E k \in DOMAIN files_to_write :
         /\ Len(OpsOn(k)) = 4
         /\ OpsOn(k)[1].result = "ELOOP"
         /\ OpsOn(k)[2] = [op |-> "unlink", path |-> k, result |-> "ok"]
         /\ OpsOn(k)[4].op = "write" /\ OpsOn(k)[4].result = "ok"

\* the failed operations the handler does not absorb: all but the first open
\* of a file failing with ELOOP, and an open failing with EACCES
Fatal(i) ==
    /\ oplog[i].result # "ok"
    /\ ~(oplog[i].op = "open" /\ oplog[i].result = "EACCES")
    /\ ~(/\ oplog[i].op = "open" /\ oplog[i].result = "ELOOP"
         /\ \A j \in 1..(i - 1) : oplog[j].path # oplog[i].path)

HasContent(k) == files_to_write[k] # << >>

\* C7: an open failing with EACCES ends the work on that file and raises
\* nothing, and a run that returns has written every other file with content,
\* the files being taken in ascending path order; any other failure is the
\* last operation of the run, which raises its errno.
C7_EaccesSkipsOthersAbort ==
    /\ \A i \in DOMAIN oplog :
         oplog[i].op = "open" /\ oplog[i].result = "EACCES" =>
           /\ \A j \in (i + 1)..Len(oplog) : oplog[j].path # oplog[i].path
           /\ (i = Len(oplog) => pc # "raised" /\ err = "none")
    /\ \A i, j \in DOMAIN oplog :
         i < j => PathRank(oplog[i].path) <= PathRank(oplog[j].path)
    /\ (pc = "done" /\ ~args.noop =>
          \A k \in DOMAIN files_to_write :
             HasContent(k) =>
               \/ NumOps(k, "open", {"EACCES"}) = 1
               \/ /\ NumOps(k, "write", {"ok"}) = 1
                  /\ OpsOn(k)[Len(OpsOn(k))].data = Text(files_to_write[k]))
    /\ \A i \in DOMAIN oplog :
         Fatal(i) => i = Len(oplog) /\ pc = "raised" /\ err = oplog[i].result
    /\ (pc = "raised" => oplog # << >> /\ Fatal(Len(oplog)))

\* a run that passed over a read-only file, wrote a later one and returned
C7_Witness ==
    /\ pc = "done"
    /\ \E i, j \in DOMAIN oplog :
         /\ i < j
         /\ oplog[i].op = "open" /\ oplog[i].result = "EACCES"
         /\ oplog[j].op = "write" /\ oplog[j].result = "ok"

\* C8: an entry without content is never opened, written, unlinked or
\* printed; an entry with content is printed at most once and written at most
\* once, and when finish_files returns it was handled exactly once: printed
\* once in no-op mode, and in write mode either written once or passed over
\* once for EACCES.
C8_BlankNeverContentOnce ==
    \A k \in DOMAIN files_to_write :
      IF ~HasContent(k)
      THEN OpsOn(k) = << >> /\ NumPrints(k) = 0
      ELSE /\ NumPrints(k) <= 1
           /\ NumOps(k, "write", {"ok"} \cup WriteErrors) <= 1
           /\ (pc = "done" /\ args.noop => NumPrints(k) = 1 /\ OpsOn(k) = << >>)
           /\ (pc = "done" /\ ~args.noop =>
                 /\ NumPrints(k) = 0
                 /\ NumOps(k, "write", {"ok"}) + NumOps(k, "open", {"EACCES"}) = 1)

\* a returned run over a FileMap with a blank entry and one with content
C8_Witness ==
    /\ pc = "done"
    /\ \E k \in DOMAIN files_to_write : ~HasContent(k)
    /\ \E k \in DOMAIN files_to_write :
         HasContent(k) /\ (NumPrints(k) = 1 \/ NumOps(k, "write", {"ok"}) = 1)

\* what no-op mode has to print: the entries with content, by ascending path
RECURSIVE ChunksFrom(_)
ChunksFrom(i) ==
    IF i > Len(PathOrder) THEN << >>
    ELSE (IF PathOrder[i] \in DOMAIN files_to_write /\ HasContent(PathOrder[i])
          THEN << Chunk(PathOrder[i]) >> ELSE << >>)
         \o ChunksFrom(i + 1)

\* C9: in no-op mode no file is opened, unlinked or written; what is printed
\* is a prefix of the entries with content, each as '### Write <path>', a
\* newline and the content, in ascending path order, and all of them when
\* finish_files returns.
C9_NoopPrintsOnly ==
    args.noop =>
      /\ oplog = << >>
      /\ pc # "raised"
      /\ Len(stdout) <= Len(ChunksFrom(1))
      /\ stdout = SubSeq(ChunksFrom(1), 1, Len(stdout))
      /\ (pc = "done" => stdout = ChunksFrom(1))

\* a returned no-op run that printed two entries
C9_Witness ==
    /\ args.noop /\ pc = "done"
    /\ Len(stdout) >= 2

----------------------------------------------------------------------------
(* Properties of get_sys_interfaces *)

\* the named interface is no vlan, no bridge and has a permanent address
PassesFilters(n) ==
    /\ sysfs[n].config = "none"
    /\ sysfs[n].addr_assign_type = "0"

\* C10: in single-interface mode no 'ip link set ... up' is issued and no
\* carrier file is read, the map never holds more than one entry, and the
\* map returned is {MAC -> name} of the named interface when it passes the
\* vlan, bridge and permanent-address filters, and empty when it does not.
C10_SingleInterfaceTrusted ==
    args.interface # "None" =>
      /\ cmdlog = << >>
      /\ \A i \in DOMAIN oplog :
           oplog[i].path \notin { n \o "/carrier" : n \in DOMAIN sysfs }
      /\ Cardinality(DOMAIN sys_interfaces) <= 1
      /\ pc # "raised"
      /\ (pc = "returned" =>
            sys_interfaces =
              IF PassesFilters(args.interface)
              THEN (sysfs[args.interface].address :> args.interface)
              ELSE << >>)

\* a run for one named card without carrier that returned its entry
C10_Witness ==
    /\ args.interface \notin {"None", "lo"}
    /\ pc = "returned"
    /\ sysfs[args.interface].carrier = "EINVAL"
    /\ sys_interfaces = (sysfs[args.interface].address :> args.interface)

----------------------------------------------------------------------------
(* Properties of main *)

\* the positions in the log of the writes of run p
WritesOf(p) == { i \in DOMAIN oplog : oplog[i].run = p }

\* C11: a run takes the lock at most once and has taken it before its first
\* write; every write is made by the holder of the lock; a run that has
\* ended, by return or by exception, no longer holds the lock; and the
\* writes of a run are not interleaved with those of another run.
C11_LockGuardsWrites ==
    /\ \A p \in Runs :
         /\ runs[p].acquired <= 1
         /\ (WritesOf(p) # {} => runs[p].acquired = 1)
         /\ (runs[p].pc \in {"done", "raised"} => lock # p)
         /\ \A i, j \in WritesOf(p) : \A k \in DOMAIN oplog :
              (i < k /\ k < j) => k \in WritesOf(p)
    /\ \A i \in DOMAIN oplog : oplog[i].holder = oplog[i].run

\* one run wrote and left by an exception, after which another run took the
\* lock and wrote
C11_Witness ==
    \E p, q \in Runs :
       /\ p # q
       /\ runs[p].pc = "raised" /\ WritesOf(p) # {}
       /\ runs[q].acquired = 1 /\ WritesOf(q) # {}
       /\ \A i \in WritesOf(p), j \in WritesOf(q) : i < j

----------------------------------------------------------------------------
(* Properties of the parser *)

HasTopology == "links" \in DOMAIN net /\ "networks" \in DOMAIN net

\* the ids of the links of the document of the given types
DeclaredIds(types) ==
    IF "links" \in DOMAIN net
    THEN { net.links[i].id : i \in { j \in DOMAIN net.links : net.links[j].type \in types } }
    ELSE {}

\* the vlan links whose vlan_link names neither a physical link nor a bond
DanglingVlans ==
    IF "links" \in DOMAIN net
    THEN { net.links[i] : i \in { j \in DOMAIN net.links :
              /\ net.links[j].type = "vlan"
              /\ net.links[j].vlan_link \notin DeclaredIds({"phy", "bond"}) } }
    ELSE {}

\* the records of the topology that come from the vlan link l
DerivedFromVlan(l) ==
    { i \in DOMAIN interfaces :
        /\ "vlan_id" \in DOMAIN interfaces[i].val
        /\ interfaces[i].val.vlan_link = l.vlan_link }

\* C12: a vlan link whose vlan_link names no declared physical link or bond
\* gives no interface of the topology, with or without a network bound to
\* it, and neither the parser nor the renderer raises.
C12_DanglingVlanDropped ==
    (HasTopology /\ DanglingVlans # {} /\ pc # "start") =>
       /\ \A l \in DanglingVlans : DerivedFromVlan(l) = {}
       /\ pc # "raised"

\* the link of the document with the id
LinkById(id) == net.links[CHOOSE i \in DOMAIN net.links : net.links[i].id = id]

\* the MAC of a declared link as the parser spells it
LinkMac(id) == Lower(LinkById(id).ethernet_mac_address)

\* the records of the topology that come from a vlan link
VlanRecords ==
    { interfaces[i].val : i \in { j \in DOMAIN interfaces :
                                    "vlan_id" \in DOMAIN interfaces[j].val } }

\* C13: after parsing, a record of a vlan on a bond has as raw_macs the MACs
\* of the physical links of the bond's bond_links, all of them and in that
\* order, and not the MAC of the bond; a record of a vlan on a physical link
\* has as raw_macs the one MAC of that link.
C13_VlanRawMacs ==
    (pc = "parsed" /\ HasTopology) =>
      \A v \in VlanRecords :
         /\ v.vlan_link \in DeclaredIds({"phy"}) =>
              v.raw_macs = << LinkMac(v.vlan_link) >>
         /\ v.vlan_link \in DeclaredIds({"bond"}) =>
              LET kids == LinkById(v.vlan_link).bond_links
              IN  /\ v.raw_macs = [i \in DOMAIN kids |-> LinkMac(kids[i])]
                  /\ \A i \in DOMAIN v.raw_macs : v.raw_macs[i] # LinkMac(v.vlan_link)

\* a parsed vlan on a bond of two physical links
C13_Witness ==
    /\ pc = "parsed" /\ HasTopology
    /\ \E v \in VlanRecords :
         /\ v.vlan_link \in DeclaredIds({"bond"})
         /\ Len(v.raw_macs) = 2

\* the bond links of the document
BondLinks ==
    { net.links[i] : i \in { j \in DOMAIN net.links : net.links[j].type = "bond" } }

\* the ids of the links a network is bound to
NetworkLinks == { net.networks[i].link : i \in DOMAIN net.networks }

\* the records of the topology that come from the link with the id: a record
\* keeps the MAC of its link, and a vlan has a MAC of its own
RecordsOf(id) ==
    { interfaces[i].val : i \in { j \in DOMAIN interfaces :
          /\ "vlan_id" \notin DOMAIN interfaces[j].val
          /\ interfaces[j].val.mac_address = LinkMac(id) } }

\* C14: after parsing, every record that comes from a physical link of a bond
\* carries bond_master = the id of the bond, and there is such a record for
\* every one of these links; every record of the bond has as raw_macs the
\* MACs of its physical links in bond_links order; and a bond no network is
\* bound to is in the topology under its link id with the type 'manual'.
C14_BondResolved ==
    (pc = "parsed" /\ HasTopology) =>
      \A b \in BondLinks :
         LET macs == [i \in DOMAIN b.bond_links |-> LinkMac(b.bond_links[i])]
         IN  /\ \A i \in DOMAIN b.bond_links :
                  /\ RecordsOf(b.bond_links[i]) # {}
                  /\ \A r \in RecordsOf(b.bond_links[i]) :
                       /\ "bond_master" \in DOMAIN r
                       /\ r.bond_master = b.id
             /\ \A r \in RecordsOf(b.id) : r.raw_macs = macs
             /\ b.id \notin NetworkLinks =>
                  /\ DictHas(interfaces, b.id)
                  /\ DictGet(interfaces, b.id).type = "manual"
                  /\ DictGet(interfaces, b.id).raw_macs = macs
                  /\ DictGet(interfaces, b.id) \in RecordsOf(b.id)

\* a parsed bond of two physical links without a network of its own, one of
\* the links with a network
C14_Witness ==
    /\ pc = "parsed" /\ HasTopology
    /\ \E b \in BondLinks :
         /\ Len(b.bond_links) = 2
         /\ b.id \notin NetworkLinks
         /\ DictHas(interfaces, b.id)
         /\ b.bond_links[1] \in NetworkLinks

----------------------------------------------------------------------------
(* Properties of the routes *)

IsV6(n) == n.type = "ipv6"

RouteIsDefault(r) ==
    \/ r.network = "0.0.0.0" /\ r.netmask = "0.0.0.0"
    \/ r.network = "::" /\ r.netmask = "::"

KeyfileDialect == distro = "redhat" /\ keyfile
LegacyDialect == distro = "redhat" /\ ~keyfile

\* the prefix length of a route as the renderers print it
PrefixLen(r, v6) ==
    ToString(IF v6 THEN ipv6_netmask_length(r.netmask)
             ELSE ipv4_netmask_length(r.netmask))

\* a route text of Gentoo inside routes_<name>="...": alone on its line, or
\* first, or last, or both
GentooQuoted(text) ==
    { pre \o text \o post :
        pre \in {""} \cup { "routes_" \o NicName(i) \o "=\"" : i \in 1..NumNics },
        post \in {"", "\""} }

\* the default-gateway directive of the dialect of the run for the gateway
GatewayDirective(gw, v6) ==
    IF distro = "debian" THEN { "    gateway " \o gw }
    ELSE IF distro = "gentoo" THEN GentooQuoted("default via " \o gw)
    ELSE IF distro = "networkd" THEN { "Gateway=" \o gw }
    ELSE IF KeyfileDialect THEN { "gateway=" \o gw }
    ELSE IF v6 THEN { "IPV6_DEFAULTGW=" \o gw }
    ELSE IF _is_suse(distro) THEN { "default " \o gw }
    ELSE { "GATEWAY=" \o gw }

\* the generic route lines of the dialect of the run that name the network
\* of the route: the static, numbered or destination form
GenericRouteLines(r, v6) ==
    IF distro = "debian"
    THEN IF v6
         THEN { "    up ip -6 route add " \o r.network \o "/" \o PrefixLen(r, v6)
                  \o " via " \o r.gateway \o " dev " \o NicName(i) \o " || true" :
                  i \in 1..NumNics }
         ELSE { "    up route add -net " \o r.network \o " netmask " \o r.netmask
                  \o " gw " \o r.gateway \o " || true" }
    ELSE IF distro = "gentoo"
    THEN GentooQuoted(r.network \o " netmask " \o r.netmask \o " via " \o r.gateway)
    ELSE IF distro = "networkd"
    THEN { "Destination=" \o r.network \o "/" \o PrefixLen(r, v6) }
    ELSE IF KeyfileDialect
    THEN { "route" \o ToString(n) \o "=" \o r.network \o "/" \o PrefixLen(r, v6)
             \o "," \o r.gateway : n \in 1..(MaxRoutes + 1) }
    ELSE IF v6
    THEN { r.network \o Suffix(ipv6_netmask_length(r.netmask)) \o " via " \o r.gateway }
    ELSE IF _is_suse(distro)
    THEN { r.network \o " " \o r.gateway \o " " \o r.netmask }
    ELSE { "ADDRESS" \o ToString(n) \o "=" \o r.network : n \in 0..MaxRoutes }

\* the default routes the document declares: [route, v6, at], at the place
\* of the route in the list of its network
DeclaredDefaults ==
    UNION { { [route |-> n.routes[j], v6 |-> IsV6(n), at |-> j] :
                j \in { k \in DOMAIN n.routes : RouteIsDefault(n.routes[k]) } } :
            n \in SeqToSet(net.networks) }

\* some file holds the lines one right after the other
HasBlock(lines) ==
    \E p \in DOMAIN files_to_write : \E k \in 0..Len(files_to_write[p]) :
       /\ k + Len(lines) <= Len(files_to_write[p])
       /\ \A i \in DOMAIN lines : files_to_write[p][k + i] = lines[i]

\* C15, as the specification states it: in every dialect a default route of
\* a rendered network is there as the default-gateway directive of the
\* dialect and no generic route line is made from it (Gentoo leaves ipv6
\* networks out altogether, so it has no ipv6 route to render).
C15_DefaultRouteDirective ==
    pc = "rendered" =>
      \A d \in { x \in DeclaredDefaults : ~(distro = "gentoo" /\ x.v6) } :
         /\ GatewayDirective(d.route.gateway, d.v6) \cap AllLines # {}
         /\ GenericRouteLines(d.route, d.v6) \cap AllLines = {}

\* C15, amended: Debian, the ifcfg dialects of RedHat and SUSE, and Gentoo
\* for ipv4 render a default route as their default-gateway directive and
\* make no generic route line from it; Gentoo renders nothing from an ipv6
\* network; the keyfile dialect renders the default route as the numbered
\* line route<n>=<network>/0,<gateway>, n its place in the list, and
\* networkd as a [Route] section with Destination=<network>/0 and Gateway=.
C15_DefaultRouteByDialect ==
    pc = "rendered" =>
      \A d \in DeclaredDefaults :
         IF KeyfileDialect
         THEN /\ ("route" \o ToString(d.at) \o "=" \o d.route.network \o "/0,"
                    \o d.route.gateway) \in AllLines
              /\ GatewayDirective(d.route.gateway, d.v6) \cap AllLines = {}
         ELSE IF distro = "networkd"
         THEN HasBlock(<< "[Route]", "Destination=" \o d.route.network \o "/0",
                          "Gateway=" \o d.route.gateway >>)
         ELSE IF distro = "gentoo" /\ d.v6
         THEN /\ GatewayDirective(d.route.gateway, d.v6) \cap AllLines = {}
              /\ GenericRouteLines(d.route, d.v6) \cap AllLines = {}
         ELSE /\ GatewayDirective(d.route.gateway, d.v6) \cap AllLines # {}
              /\ GenericRouteLines(d.route, d.v6) \cap AllLines = {}
              /\ (LegacyDialect /\ ~d.v6) => "DEFROUTE=yes" \in AllLines

\* a rendered RedHat ifcfg with the default route and another route
C15_Witness ==
    /\ pc = "rendered" /\ LegacyDialect
    /\ "GATEWAY=10.0.0.1" \in AllLines
    /\ "ADDRESS0=192.168.0.0" \in AllLines
    /\ \E d \in DeclaredDefaults : ~d.v6 /\ d.at = 2

----------------------------------------------------------------------------
(* Properties of repeated renders *)

\* a render of the dialect of the run over the records ifs, with the system
\* interfaces, the options and the files on disk of the run
RenderOf(ifs) ==
    IF distro = "debian"
    THEN write_debian_interfaces(ifs, sys_interfaces, args, disk)
    ELSE IF distro = "gentoo"
    THEN write_gentoo_interfaces(ifs, sys_interfaces, args, disk)
    ELSE IF distro = "networkd"
    THEN write_networkd_interfaces(ifs, sys_interfaces, args, disk)
    ELSE write_redhat_interfaces(ifs, sys_interfaces, distro, keyfile, args, disk)

\* the render r returned the FileMap of the run
SameFileMap(r) == r.err = "none" /\ r.files = files_to_write

\* C16: when a render has returned its FileMap, a second render of the same
\* dialect over the records the first one worked on, changed as the first
\* one left them, returns without error the same FileMap, path by path and
\* line by line.
C16_RenderTwiceSame ==
    pc = "rendered" => SameFileMap(RenderOf(interfaces))

\* a render that returned files and left the records changed
C16_Witness ==
    /\ pc = "rendered"
    /\ interfaces # Parsed
    /\ files_to_write # << >>
    /\ \E i \in DOMAIN interfaces : "bond_slaves" \in DOMAIN interfaces[i].val

----------------------------------------------------------------------------
(* Properties of the permanent-address filter *)

\* the interfaces of /sys/class/net whose addr_assign_type is not '0'
NotPermanent == { n \in DOMAIN sysfs : sysfs[n].addr_assign_type # "0" }

\* the commands that set a link up
LinkUps == { cmdlog[i] : i \in DOMAIN cmdlog }

\* C17: in the single-interface mode and in the probe of all interfaces, an
\* interface whose addr_assign_type is not '0' is never a value of the
\* MAC -> name map, is never kept for the wait for its carrier, and no
\* 'ip link set dev <name> up' is issued for it.
C17_OnlyPermanentAddresses ==
    \A n \in NotPermanent :
       /\ \A m \in DOMAIN sys_interfaces : sys_interfaces[m] # n
       /\ \A i \in DOMAIN if_dict : if_dict[i].key # n
       /\ ("ip link set dev " \o n \o " up") \notin LinkUps

\* a probe of all interfaces that returned: a card without carrier and
\* without a permanent address was passed over, while a card with a
\* permanent address was set up and entered in the map
C17_Witness ==
    /\ pc = "returned"
    /\ args.interface = "None"
    /\ \E n \in NotPermanent : sysfs[n].carrier = "EINVAL"
    /\ \E m \in DOMAIN sys_interfaces :
          ("ip link set dev " \o sys_interfaces[m] \o " up") \in LinkUps

----------------------------------------------------------------------------
(* Properties of the skip-dns flag *)

\* the DNS= lines a networkd file can hold for the services of Services
DnsDirectives == { "DNS=" \o Services[i].address : i \in DOMAIN Services }

\* the document declares a DNS service of its own and one on its network
DeclaresDns ==
    /\ get_dns_from_config_drive(net) # << >>
    /\ get_dns_from_config_drive(net.networks[1]) # << >>

\* C18: with the skip-dns flag set, at every point of the run the FileMap
\* has no /etc/resolv.conf and no /etc/systemd/resolved.conf entry and none
\* of its files holds a DNS= line, whatever services the document and its
\* networks declare.
C18_SkipDnsWritesNoDns ==
    args.skip_dns =>
      /\ "/etc/resolv.conf" \notin DOMAIN files_to_write
      /\ "/etc/systemd/resolved.conf" \notin DOMAIN files_to_write
      /\ AllLines \cap DnsDirectives = {}

\* a networkd run with the flag set that rendered the .network file of a
\* card whose document and network both declare DNS services
C18_Witness ==
    /\ pc = "rendered"
    /\ args.skip_dns
    /\ distro = "networkd"
    /\ DeclaresDns
    /\ NetworkdNetwork(NicName(1)) \in DOMAIN files_to_write

----------------------------------------------------------------------------
(* Properties of the RedHat legacy files of a static network *)

\* the static ipv4 networks of the document
Static4 == SelectSeq(net.networks, LAMBDA n : n.type = "ipv4")

\* the routes of a network that are not its default route, in order
NonDefaultRoutes(n) == SelectSeq(n.routes, LAMBDA r : ~RouteIsDefault(r))

RouteFile(name)  == _network_files(distro).route \o "-" \o name
Route6File(name) == _network_files(distro).route6 \o "-" \o name

\* the route file holds ADDRESSn, NETMASKn and GATEWAYn of the routes, n
\* counting from 0
NumberedFromZero(content, routes) ==
    /\ Len(content) = 3 * Len(routes)
    /\ \A i \in DOMAIN routes :
         /\ content[3 * i - 2] = "ADDRESS" \o ToString(i - 1) \o "=" \o routes[i].network
         /\ content[3 * i - 1] = "NETMASK" \o ToString(i - 1) \o "=" \o routes[i].netmask
         /\ content[3 * i] = "GATEWAY" \o ToString(i - 1) \o "=" \o routes[i].gateway

\* what the FileMap of a legacy run holds for network n on the card name
LegacyStaticFiles(n, name) ==
    LET ifcfg == IfcfgPath(distro, name)
        lines == SeqToSet(files_to_write[ifcfg])
    IN  /\ DOMAIN files_to_write \ { RouteFile(name), Route6File(name) } = { ifcfg }
        /\ { "BOOTPROTO=static", "IPADDR=" \o n.ip_address,
             "NETMASK=" \o n.netmask } \subseteq lines
        /\ \A j \in DOMAIN n.routes :
             RouteIsDefault(n.routes[j]) =>
               { "DEFROUTE=yes", "GATEWAY=" \o n.routes[j].gateway } \subseteq lines
        /\ NonDefaultRoutes(n) = n.routes => "DEFROUTE=yes" \notin lines
        /\ RouteFile(name) \in DOMAIN files_to_write <=> NonDefaultRoutes(n) # << >>
        /\ RouteFile(name) \in DOMAIN files_to_write =>
             NumberedFromZero(files_to_write[RouteFile(name)], NonDefaultRoutes(n))

\* C19: on the RedHat legacy dialect, the card with one static ipv4 network
\* gets exactly one ifcfg file, with BOOTPROTO=static, IPADDR and NETMASK; a
\* default route adds DEFROUTE=yes and GATEWAY=<gw> to it; the route file
\* exists exactly when a route is not the default route, and its entries are
\* ADDRESSn, NETMASKn, GATEWAYn with n counting from 0.
C19_LegacyStaticIfcfg ==
    (pc = "rendered" /\ LegacyDialect /\ Len(Static4) = 1) =>
       LegacyStaticFiles(Static4[1], NicName(1))

\* a legacy run for a network whose first route is the default route and
\* whose second is not: the route file holds the second as entry 0
C19_Witness ==
    /\ pc = "rendered"
    /\ LegacyDialect
    /\ Len(Static4) = 1
    /\ Len(Static4[1].routes) = 2
    /\ RouteIsDefault(Static4[1].routes[1])
    /\ RouteFile(NicName(1)) \in DOMAIN files_to_write
    /\ "DEFROUTE=yes" \in SeqToSet(files_to_write[IfcfgPath(distro, NicName(1))])

----------------------------------------------------------------------------
(* Properties of the SUSE bond *)

\* the system names of the slaves of bond b, in the order of its bond_links
SlaveNames(b) ==
    [i \in DOMAIN b.bond_links |-> sys_interfaces[LinkMac(b.bond_links[i])]]

\* every slave of bond b is declared and is a card of the host
SlavesPresent(b) ==
    \A i \in DOMAIN b.bond_links :
       /\ \E j \in DOMAIN net.links : net.links[j].id = b.bond_links[i]
       /\ LinkMac(b.bond_links[i]) \in DOMAIN sys_interfaces

\* the BONDING_SLAVE_<n>=<name> lines a file can hold
SlaveDirectives ==
    { "BONDING_SLAVE_" \o ToString(n) \o "=" \o NicName(j) :
        n \in 0..(NumPhys + 1), j \in 1..NumNics }

LinesOf(path) == SeqToSet(files_to_write[path])

\* the files of the FileMap that declare a bonding master
MasterFiles ==
    { p \in DOMAIN files_to_write : "BONDING_MASTER=yes" \in LinesOf(p) }

\* what the FileMap of a SUSE run holds for bond b
SuseBondFiles(b) ==
    LET master == IfcfgPath(distro, b.id)
        names  == SlaveNames(b)
    IN  /\ MasterFiles = { master }
        /\ SelectSeq(files_to_write[master], LAMBDA l : l \in SlaveDirectives)
             = [i \in DOMAIN names |->
                  "BONDING_SLAVE_" \o ToString(i - 1) \o "=" \o names[i]]
        /\ \A i \in DOMAIN names :
             /\ IfcfgPath(distro, names[i]) \in DOMAIN files_to_write
             /\ "STARTMODE=hotplug" \in LinesOf(IfcfgPath(distro, names[i]))
             /\ "STARTMODE=auto" \notin LinesOf(IfcfgPath(distro, names[i]))

\* C20: on the SUSE dialect, for a bond whose k slaves are all cards of the
\* host, exactly one file of the FileMap holds BONDING_MASTER=yes, the ifcfg
\* file of the bond; its BONDING_SLAVE lines are BONDING_SLAVE_<n>=<system
\* name> for n = 0..k-1 in the order of the slaves; and the ifcfg file of
\* each slave holds STARTMODE=hotplug and not STARTMODE=auto.
C20_SuseBondMaster ==
    (pc = "rendered" /\ _is_suse(distro) /\ HasTopology) =>
       \A b \in BondLinks : SlavesPresent(b) => SuseBondFiles(b)

\* a SUSE run that rendered a bond of two cards of the host
C20_Witness ==
    /\ pc = "rendered" /\ _is_suse(distro) /\ HasTopology
    /\ \E b \in BondLinks :
         /\ Len(b.bond_links) = 2
         /\ SlavesPresent(b)
         /\ "BONDING_SLAVE_1=" \o SlaveNames(b)[2]
               \in LinesOf(IfcfgPath(distro, b.id))

----------------------------------------------------------------------------
(* Properties of the wait for the carriers *)

\* the interfaces kept for the wait
Candidates == { if_dict[i].key : i \in DOMAIN if_dict }

\* the interfaces the map returns
Mapped == { sys_interfaces[m] : m \in DOMAIN sys_interfaces }

\* a sweep of the wait read 1 from the carrier file of n
SeenUp(n) ==
    \E j \in DOMAIN oplog :
       oplog[j] = [op |-> "poll", path |-> n \o "/carrier", result |-> "1"]

PollsOf(log, n) ==
    { j \in DOMAIN log : log[j].op = "poll" /\ log[j].path = n \o "/carrier" }

\* a step of the wait taken by glean, not by the host
SweepStep == pc = "wait" /\ faults' = faults /\ vars' # vars

\* C22: a sweep of the wait starts only while fewer than 90 have been made,
\* and it either returns or counts one more sweep below 90; it returns
\* without counting exactly when every candidate has been seen up; an
\* interface already seen up is not polled by it; and an interface in the
\* map stays in the map at every step, a loss of its carrier included.
C22_WaitBounded ==
    [][ /\ SweepStep =>
            /\ sweep < SweepLimit
            /\ \/ pc' = "returned"
               \/ pc' = "wait" /\ sweep' = sweep + 1 /\ sweep' < SweepLimit
            /\ (Candidates \subseteq SeqToSet(if_up_list'))
                 <=> (pc' = "returned" /\ sweep' = sweep)
            /\ \A n \in SeqToSet(if_up_list) :
                  PollsOf(oplog', n) = PollsOf(oplog, n)
        /\ \A m \in DOMAIN sys_interfaces :
              m \in DOMAIN sys_interfaces' /\ sys_interfaces'[m] = sys_interfaces[m]
      ]_vars

\* the wait goes on for one candidate while another, seen up in an earlier
\* sweep and in the map, has lost its carrier
C22_Witness ==
    /\ pc = "wait" /\ sweep > 0
    /\ \E n \in Candidates :
         /\ n \in SeqToSet(if_up_list) /\ n \in Mapped
         /\ sysfs[n].carrier = "0"
    /\ \E n \in Candidates : n \notin SeqToSet(if_up_list)

----------------------------------------------------------------------------
(* Properties of the probe *)

\* the probe read something other than 1 from the carrier file of n
ProbedDown(n) ==
    \E j \in DOMAIN oplog :
       /\ oplog[j].op = "read" /\ oplog[j].path = n \o "/carrier"
       /\ oplog[j].result # "1"

\* how often the link of n was set up
LinkUpCount(n) ==
    Cardinality({ i \in DOMAIN cmdlog : cmdlog[i] = "ip link set dev " \o n \o " up" })

\* C23: in a probe of all interfaces that is not a no-op, once the wait has
\* begun every candidate probed without carrier has had its link set up
\* exactly once and every other interface never, and no run raises: a
\* command that fails does not end the run.
C23_LinkUpBestEffort ==
    (args.interface = "None" /\ ~args.noop) =>
       /\ pc # "raised"
       /\ pc \in {"wait", "returned"} =>
            \A n \in DOMAIN sysfs :
               LinkUpCount(n) = IF n \in Candidates /\ ProbedDown(n) THEN 1 ELSE 0

----------------------------------------------------------------------------
(* Properties of the interfaces passed over *)

\* the interfaces with an ignored prefix, and those the config files of the
\* distro name a vlan or a bridge
Ignored ==
    { n \in DOMAIN sysfs :
        \/ StartsWithIgnored(n)
        \/ is_interface_vlan(n, distro, sysfs)
        \/ is_interface_bridge(n, distro, sysfs) }

\* C24: no interface with an ignored prefix and no interface recognized as
\* a configured vlan or bridge is ever a value of the MAC -> name map, in
\* the probe of all interfaces and in the single-interface mode.
C24_IgnoredNeverMapped == Mapped \cap Ignored = {}

----------------------------------------------------------------------------
(* Properties of the RedHat ipv6 pass *)

RedHatFamily == distro \in {"redhat", "centos", "fedora", "rocky"} \/ _is_suse(distro)

\* C25: in the RedHat family, when the networks of a matched card are
\* rendered, the ipv6 pass always finds the config file of the device in the
\* FileMap: no run ends with the AssertionError of _write_rh_v6_interface or
\* the KeyError of the keyfile variant, a card with only an ipv6 network
\* included.
C25_V6FindsConfigFile ==
    RedHatFamily => err \notin {"AssertionError", "KeyError"}

----------------------------------------------------------------------------
(* Properties of the networkd netdev files *)

\* the device names of the cards, and those of the vlans and bonds
PlainNames == { NicName(i) : i \in 1..NumNics }
VirtualNames ==
    { "bond0", "bond0-vlan101" } \cup { NicName(i) \o "-vlan101" : i \in 1..NumNics }

\* C26: in the networkd dialect a device has a .netdev file exactly when it
\* is a vlan or a bond: every vlan or bond with a .network file has its
\* .netdev file, and a card, whether configured from the document or by the
\* DHCP fallback, has a .network file only.
C26_NetdevOnlyForVirtual ==
    (pc = "rendered" /\ distro = "networkd") =>
       /\ \A n \in VirtualNames :
             NetworkdNetwork(n) \in DOMAIN files_to_write
               => NetworkdNetdev(n) \in DOMAIN files_to_write
       /\ \A n \in PlainNames : NetworkdNetdev(n) \notin DOMAIN files_to_write

----------------------------------------------------------------------------
(* Properties of the keyfile ipv6 block *)

\* the ipv6 network of the document, and whether an ipv4 network of the
\* same card comes before it
Net6 == net.networks[Len(net.networks)]
HasNet4 == Len(net.networks) = 2

\* the netmask of the ipv6 network is declared and converts
Converts6 == "netmask" \in DOMAIN Net6 /\ ipv6_netmask_valid(Net6.netmask)

\* neither pattern finds its line in the [ipv6] block: there is no address
\* line, or its prefix length has not two digits
NoAnchor ==
    \/ Net6.type = "ipv6_slaac" /\ Net6.ip_address = ""
    \/ Converts6 /\ ~TwoDigits(ipv6_netmask_length(Net6.netmask))

\* the route lines of the ipv6 network, as the keyfile names them
RouteLines6 ==
    { "route" \o ToString(i) \o "=" \o Net6.routes[i].network \o "/"
        \o ToString(ipv6_netmask_length(Net6.routes[i].netmask))
        \o "," \o Net6.routes[i].gateway : i \in DOMAIN Net6.routes }

KeyfileLines == SeqToSet(files_to_write[KeyfilePath(NicName(1))])

\* C27: in the keyfile dialect, for a card with an ipv4 network and an ipv6
\* network with routes whose [ipv6] block has neither anchor, the run does
\* not raise, and the file of the device holds the [ipv6] block without any
\* of the route lines.
C27_RoutesOmittedWithoutAnchor ==
    (HasNet4 /\ Net6.routes # << >> /\ NoAnchor) =>
       /\ pc # "raised"
       /\ pc = "rendered" =>
            /\ "[ipv6]" \in KeyfileLines
            /\ RouteLines6 \cap KeyfileLines = {}

\* C28: in the keyfile dialect, for a card with an ipv4 network and an ipv6
\* network with an address whose netmask is missing or does not convert, the
\* run does not raise: the renderer returns a FileMap with the file of the
\* device.
C28_BadNetmaskRendersOn ==
    (HasNet4 /\ ~Converts6 /\ Net6.ip_address # "" /\ Net6.routes = << >>) =>
       /\ pc # "raised"
       /\ pc = "rendered" => KeyfilePath(NicName(1)) \in DOMAIN files_to_write

----------------------------------------------------------------------------
(* Properties of a bond with absent slaves *)

\* some but not all slaves of bond b are cards of the system-interface map
PartlyPresent(b) ==
    LET macs == { LinkMac(b.bond_links[i]) : i \in DOMAIN b.bond_links }
    IN  /\ macs \cap DOMAIN sys_interfaces # {}
        /\ ~(macs \subseteq DOMAIN sys_interfaces)

\* the document declares no vlan and no ipv6 network
PlainBondDocument ==
    /\ HasTopology
    /\ \A i \in DOMAIN net.links : net.links[i].type # "vlan"
    /\ \A i \in DOMAIN net.networks : net.networks[i].type # "ipv6"

\* C29: in every dialect, for a document with a bond of which only some
\* slaves are in the system-interface map, the run does not raise.
C29_PartialBondRenders ==
    (PlainBondDocument /\ \E b \in BondLinks : PartlyPresent(b)) => pc # "raised"

----------------------------------------------------------------------------
(* Properties of two networks on one link *)

\* the fields the parser gives a physical link
LinkFields == { "id", "type", "mac_address" }

\* C30: when an ipv4 and an ipv6 network are bound to the same link, the
\* record returned for the network declared later holds only fields of
\* that network and of the link: no field that only the earlier network
\* declares, such as its netmask, is in it.
C30_LaterNetworkOwnFields ==
    (pc = "parsed" /\ HasNet4) =>
       /\ DictHas(interfaces, Net6.id)
       /\ DOMAIN DictGet(interfaces, Net6.id) \subseteq DOMAIN Net6 \cup LinkFields

====
